---- MODULE Spec2Model ----
(***************************************************************************)
(* Model of the graph execution subsystem of temoto_action_engine:         *)
(* ActionExecutor (src/src/action_executor.cpp) operating on held UMRF     *)
(* graphs and the registry of action handles.                              *)
(*                                                                         *)
(* The UmrfGraph and ActionHandle classes are used by the executor but     *)
(* their implementation files are not part of the sources at hand; their   *)
(* operations are modelled from the documented contract (sections 3, 4.1   *)
(* and 4.2 of the specification).                                          *)
(***************************************************************************)
EXTENDS Integers, FiniteSets, Sequences, TLC

\* Bound of the id counter action_handle_id_count_: operations that would
\* hand out an id >= MaxId are not taken.
MaxId == 3

GraphNames == {"g1"}
Ids == 0 .. (MaxId - 1)

VARIABLES
  graphs,    \* named_umrf_graphs_ : graph name -> UmrfGraph
  handles,   \* named_action_handles_ : handle id -> ActionHandle
  counter,   \* action_handle_id_count_
  removed,   \* history: the nodes taken out of a graph by a remove_umrf diff
  admitted,  \* history: per graph name, the handle count at its admission
  last,      \* history: the operation that produced this state and its outcome
  shutdown,  \* cleanup_loop_spinning_, the cleanup task and a stopAndCleanUp call
  locks,     \* the two mutexes and the position of each thread in its operation
  operands,  \* Umrf objects handed to the operations of Umrf, and their results
  action     \* an ActionBase object, the polls of its worker and the stop requests

vars == <<graphs, handles, counter, removed, admitted, last, shutdown, locks,
          operands, action>>

-----------------------------------------------------------------------------
(* Generic helpers on finite maps and sets of ids *)

Put(f, k, v) == [x \in (DOMAIN f) \cup {k} |-> IF x = k THEN v ELSE f[x]]

Drop(f, S) == [x \in (DOMAIN f) \ S |-> f[x]]

MinOf(S) == CHOOSE x \in S : \A y \in S : x <= y

-----------------------------------------------------------------------------
(* Umrf: the node descriptor.  A relation is keyed by the full name of the *)
(* node it points to and carries the flags required and received.          *)

\* Umrf::isUmrfCorrect: name and library path are non-empty.  The model
\* keeps the outcome of that test as the field "correct" of the node.
isUmrfCorrect(node) == node.correct

\* Umrf::requiredParentsFinished
requiredParentsFinished(node) ==
  \A p \in DOMAIN node.parents :
    ~(node.parents[p].required /\ ~node.parents[p].received)

\* Umrf::setParentReceived: marks the relation to the given parent received.
\* The caller passes a parent taken from the node's own parent list.
setParentReceived(node, pname) ==
  [node EXCEPT !.parents[pname].received = TRUE]

-----------------------------------------------------------------------------
(* UmrfGraph: nodes keyed by id, the per-node runtime state and the graph  *)
(* state.                                                                   *)

NodeIds(g) == DOMAIN g.nodes

NamesOf(g) == {g.nodes[i].name : i \in NodeIds(g)}

\* UmrfGraph::partOfGraph(full_name)
partOfGraphName(g, name) == name \in NamesOf(g)

\* UmrfGraph::partOfGraph(id)
partOfGraph(g, id) == id \in NodeIds(g)

\* UmrfGraph::getNodeId(full_name), for a name that is part of the graph
getNodeId(g, name) == CHOOSE i \in NodeIds(g) : g.nodes[i].name = name

\* UmrfGraph::getRootNodes: ids of the nodes without parents
getRootNodes(g) == {i \in NodeIds(g) : DOMAIN g.nodes[i].parents = {}}

\* UmrfGraph::getChildrenOf: ids of nodes whose parent list names the node
getChildrenOf(g, id) ==
  IF id \in NodeIds(g)
  THEN {c \in NodeIds(g) : g.nodes[id].name \in DOMAIN g.nodes[c].parents}
  ELSE {}

\* UmrfGraph::setNodeActive: the node becomes ACTIVE, and so does the graph
setNodeActive(g, id) ==
  [g EXCEPT !.nodes[id].st = "ACTIVE", !.state = "ACTIVE"]

\* UmrfGraph::setNodeFinished: the node becomes FINISHED.  The executor's
\* rollback relies on this for nodes that never became ACTIVE ("to let the
\* graph proceed to completion without this branch").
setNodeFinished(g, id) == [g EXCEPT !.nodes[id].st = "FINISHED"]

\* UmrfGraph::setNodeError
setNodeError(g, id) == [g EXCEPT !.nodes[id].st = "ERROR"]

\* UmrfGraph::checkState: derived from the aggregated node states
checkState(g) ==
  IF \A i \in NodeIds(g) : g.nodes[i].st = "FINISHED" THEN "FINISHED"
  ELSE IF \E i \in NodeIds(g) : g.nodes[i].st = "ERROR" THEN "ERROR"
  ELSE g.state

\* UmrfGraph::getUmrfs().size()
GraphSize(g) == Cardinality(NodeIds(g))

-----------------------------------------------------------------------------
(* Node lists a caller submits with addUmrfGraph.  Ids are assigned by the *)
(* executor in list order.                                                  *)

Rel(req) == [required |-> req, received |-> FALSE]

NoParents == [x \in {} |-> Rel(TRUE)]

Parents(S) == [x \in S |-> Rel(TRUE)]

Desc(name, correct, parents) ==
  [name |-> name, correct |-> correct, parents |-> parents]

UmrfLists ==
  { <<Desc("A", TRUE, NoParents)>>,
    <<Desc("A", TRUE, NoParents), Desc("B", TRUE, Parents({"A"}))>>,
    <<Desc("A", TRUE, NoParents), Desc("B", TRUE, Parents({"A"})),
      Desc("C", TRUE, Parents({"B"}))>>,
    <<Desc("B", TRUE, NoParents), Desc("C", TRUE, NoParents),
      Desc("D", TRUE, Parents({"B", "C"}))>>,
    <<Desc("A", TRUE, NoParents), Desc("B", TRUE, NoParents),
      Desc("C", TRUE, NoParents)>>,
    <<Desc("A", TRUE, NoParents), Desc("B", FALSE, NoParents)>>,
    <<Desc("A", FALSE, NoParents), Desc("B", TRUE, NoParents)>>,
    <<Desc("A", TRUE, Parents({"B"})), Desc("B", TRUE, Parents({"A"}))>> }

RECURSIVE Ancestors(_, _, _)
Ancestors(umrfs, S, k) ==
  IF k = 0 THEN S
  ELSE Ancestors(umrfs,
         S \cup UNION {DOMAIN umrfs[i].parents :
                         i \in {j \in 1 .. Len(umrfs) : umrfs[j].name \in S}},
         k - 1)

\* UmrfGraph constructor checks: unique full names, resolvable parents, no
\* self-loop and no cycle.
ValidUmrfs(umrfs) ==
  LET idx == 1 .. Len(umrfs)
      names == {umrfs[i].name : i \in idx}
  IN /\ \A i, j \in idx : umrfs[i].name = umrfs[j].name => i = j
     /\ \A i \in idx : DOMAIN umrfs[i].parents \subseteq names
     /\ \A i \in idx :
          umrfs[i].name \notin Ancestors(umrfs, DOMAIN umrfs[i].parents, Len(umrfs))

\* UmrfGraph::UmrfGraph(name, umrfs): umrfs[i] carries id first + i - 1
NewGraph(umrfs, first) ==
  [nodes |-> [i \in first .. (first + Len(umrfs) - 1) |->
                [name    |-> umrfs[i - first + 1].name,
                 correct |-> umrfs[i - first + 1].correct,
                 parents |-> umrfs[i - first + 1].parents,
                 st      |-> "NOT_STARTED"]],
   state |-> IF ValidUmrfs(umrfs) THEN "INITIALIZED" ELSE "UNINITIALIZED"]

-----------------------------------------------------------------------------
(* ActionHandle *)

\* ActionHandle::ActionHandle(umrf, executor): INITIALIZED iff the node is
\* correct.  ready: a result is available on the completion channel; error:
\* the result the worker posted carries an error message.
NewHandle(node) ==
  [state |-> IF isUmrfCorrect(node) THEN "INITIALIZED" ELSE "UNINITIALIZED",
   ready |-> FALSE, error |-> FALSE]

\* ActionHandle::executeActionThread: the worker is started
Started(h) == [h EXCEPT !.state = "RUNNING", !.ready = FALSE, !.error = FALSE]

\* The worker returns: the handle is FINISHED and its future is ready
Completed(h) == [h EXCEPT !.state = "FINISHED", !.ready = TRUE]

\* The action's execute raises: the worker catches the failure and posts it
\* as its result; the completion is not reported to the executor
Raised(h) == [h EXCEPT !.state = "FINISHED", !.ready = TRUE, !.error = TRUE]

\* ActionHandle::stopAction(timeout): the stop flag is set and the worker
\* is awaited; a running handle ends FINISHED with a result posted
Stopped(h) ==
  IF h.state = "RUNNING" THEN [h EXCEPT !.state = "FINISHED", !.ready = TRUE]
  ELSE h

\* ActionHandle::getFutureValue: the result is consumed
Consumed(h) == [h EXCEPT !.ready = FALSE]

\* Outcomes of the loader and of the worker start for one activation batch:
\* no failure, or the first failure, in instantiateAction or in
\* executeActionThread, at one id.
NoFail == [phase |-> "none", id |-> 0]

Fails(ids) ==
  {NoFail} \cup [phase : {"inst", "exec"}, id : ids]

-----------------------------------------------------------------------------
(* ActionExecutor::executeById *)

\* at: the position in the batch of the id whose failure ended the call
Outcome(h, g, res, at) == [handles |-> h, graph |-> g, res |-> res, at |-> at]

PosIn(ids, id) == Cardinality({i \in ids : i <= id})

\* The catch block of executeById: every id of the rollback set, in set
\* order; named_action_handles_.at(id) raises std::out_of_range when the id
\* has no handle, and that error leaves the handler in place of the original.
\* Faulty variant of Rollback: the handles are erased but setNodeFinished is left out
RECURSIVE RollbackKeepsNodeState(_, _, _, _, _)
RollbackKeepsNodeState(h, g, rb, err, at) ==
  IF rb = {} THEN Outcome(h, g, err, at)
  ELSE LET i == MinOf(rb)
       IN IF i \notin DOMAIN h
          THEN Outcome(h, g, "out_of_range", at)
          ELSE RollbackKeepsNodeState(Drop(h, {i}), g, rb \ {i}, err, at)

RECURSIVE Rollback(_, _, _, _, _)
Rollback(h, g, rb, err, at) ==
  IF rb = {} THEN Outcome(h, g, err, at)
  ELSE LET i == MinOf(rb)
       IN IF i \notin DOMAIN h
          THEN Outcome(h, g, "out_of_range", at)
          ELSE Rollback(Drop(h, {i}), setNodeFinished(g, i), rb \ {i}, err, at)

\* named_action_handles_.insert(tmp.begin(), tmp.end()): existing keys keep
\* their handle
BulkInsert(h, g, ids) ==
  [i \in (DOMAIN h) \cup ids |->
     IF i \in DOMAIN h THEN h[i] ELSE NewHandle(g.nodes[i])]

SetAllActive(g, ids) ==
  IF ids = {} THEN g
  ELSE [g EXCEPT !.nodes = [i \in DOMAIN g.nodes |->
                              IF i \in ids
                              THEN [g.nodes[i] EXCEPT !.st = "ACTIVE"]
                              ELSE g.nodes[i]],
                 !.state = "ACTIVE"]

StartAll(h, ids) ==
  [i \in DOMAIN h |-> IF i \in ids THEN Started(h[i]) ELSE h[i]]

\* ids are visited in ascending order (the order of getRootNodes and
\* getChildrenOf over the id-keyed node map; init_action_ids is a std::set).
\* Faulty variant of ExecuteById: a handle that is not INITIALIZED ends the
\* call whatever initialized_required says
ExecuteByIdAlwaysRequired(h, g, ids, initialized_required, fail) ==
  LET bad  == {i \in ids : NewHandle(g.nodes[i]).state # "INITIALIZED"}
      init == ids \ bad
  IN IF bad # {}
     THEN Rollback(h, g, {i \in init : i < MinOf(bad)}, "err_not_initialized",
                   PosIn(ids, MinOf(bad)))
     ELSE LET h1 == BulkInsert(h, g, init)
          IN IF fail.phase = "inst" /\ fail.id \in init
             THEN Rollback(h1, setNodeError(g, fail.id), init, "err_instantiate",
                           PosIn(init, fail.id))
             ELSE IF fail.phase = "exec" /\ fail.id \in init
             THEN LET done == {i \in init : i < fail.id}
                  IN Rollback(StartAll(h1, done),
                              setNodeError(SetAllActive(g, done), fail.id),
                              init, "err_execute", PosIn(init, fail.id))
             ELSE Outcome(StartAll(h1, init), SetAllActive(g, init), "ok", 0)

ExecuteById(h, g, ids, initialized_required, fail) ==
  LET bad  == {i \in ids : NewHandle(g.nodes[i]).state # "INITIALIZED"}
      init == ids \ bad
  IN IF initialized_required /\ bad # {}
     THEN \* thrown inside the creation loop: nothing is inserted yet
          Rollback(h, g, {i \in init : i < MinOf(bad)}, "err_not_initialized",
                   PosIn(ids, MinOf(bad)))
     ELSE LET h1 == BulkInsert(h, g, init)
          IN IF fail.phase = "inst" /\ fail.id \in init
             THEN Rollback(h1, setNodeError(g, fail.id), init, "err_instantiate",
                           PosIn(init, fail.id))
             ELSE IF fail.phase = "exec" /\ fail.id \in init
             THEN LET done == {i \in init : i < fail.id}
                  IN Rollback(StartAll(h1, done),
                              setNodeError(SetAllActive(g, done), fail.id),
                              init, "err_execute", PosIn(init, fail.id))
             ELSE Outcome(StartAll(h1, init), SetAllActive(g, init), "ok", 0)

-----------------------------------------------------------------------------
(* ActionExecutor::notifyFinished *)

\* Iteration order of the std::map named_umrf_graphs_
GraphOrder == <<"g1">>

\* Lines 52-57: every child gets the parent's outputs and its relation to
\* the parent marked received.
\* Faulty variant of Propagate: the children are handed on without the relation
\* to the parent being marked
PropagateNothing(g, parent_id, children) == g

Propagate(g, parent_id, children) ==
  [g EXCEPT !.nodes = [i \in DOMAIN g.nodes |->
                         IF i \in children
                         THEN setParentReceived(g.nodes[i], g.nodes[parent_id].name)
                         ELSE g.nodes[i]]]

Result(gs, h, res, at) == [graphs |-> gs, handles |-> h, res |-> res, at |-> at]

RECURSIVE NotifyLoop(_, _, _, _, _)
NotifyLoop(gs, h, parent_id, fail, k) ==
  IF k > Len(GraphOrder) THEN Result(gs, h, "ok", 0)
  ELSE LET n == GraphOrder[k]
       IN IF n \notin DOMAIN gs THEN NotifyLoop(gs, h, parent_id, fail, k + 1)
          ELSE IF \/ checkState(gs[n]) # "ACTIVE"
                  \/ getChildrenOf(gs[n], parent_id) = {}
          THEN NotifyLoop(gs, h, parent_id, fail, k + 1)
          ELSE LET ch  == getChildrenOf(gs[n], parent_id)
                   out == ExecuteById(h, Propagate(gs[n], parent_id, ch), ch, FALSE, fail)
               IN IF out.res # "ok"
                  THEN Result(Put(gs, n, out.graph), out.handles, out.res, out.at)
                  ELSE NotifyLoop(Put(gs, n, out.graph), out.handles,
                                  parent_id, fail, k + 1)

NotifyFinished(gs, h, parent_id, fail) == NotifyLoop(gs, h, parent_id, fail, 1)

\* The ids handed to executeById by notifyFinished in the state (gs, h)
NotifyBatch(gs, parent_id) ==
  UNION {getChildrenOf(gs[n], parent_id) :
           n \in {m \in DOMAIN gs : checkState(gs[m]) = "ACTIVE"}}

-----------------------------------------------------------------------------
(* ActionExecutor::addUmrfGraph *)

\* Line 249 builds the error of the "already added" case without throwing
\* it; ids are handed out and the graph is built in either case, and
\* std::map::insert keeps the graph already held under the name.
\* Faulty variant of AddUmrfGraph: the ids are handed out but the counter
\* is left as it was
AddUmrfGraphKeepsCounter(gs, cnt, graph_name, umrfs) ==
  LET ugh == NewGraph(umrfs, cnt)
  IN IF ugh.state = "UNINITIALIZED"
     THEN [graphs |-> gs, counter |-> cnt, res |-> "err_uninitialized"]
     ELSE [graphs  |-> IF graph_name \in DOMAIN gs THEN gs
                       ELSE Put(gs, graph_name, ugh),
           counter |-> cnt,
           res     |-> "ok"]

AddUmrfGraph(gs, cnt, graph_name, umrfs) ==
  LET ugh == NewGraph(umrfs, cnt)
      c1  == cnt + Len(umrfs)
  IN IF ugh.state = "UNINITIALIZED"
     THEN [graphs |-> gs, counter |-> c1, res |-> "err_uninitialized"]
     ELSE [graphs  |-> IF graph_name \in DOMAIN gs THEN gs
                       ELSE Put(gs, graph_name, ugh),
           counter |-> c1,
           res     |-> "ok"]

-----------------------------------------------------------------------------
(* ActionExecutor::stopAction and stopUmrfGraph *)

\* Faulty variant of StopAction: the handle is cleared but not erased
StopActionKeepsHandle(h, action_handle_id) == h

\* Faulty variant of StopAction: erase(it, end()) in place of erase(it)
StopActionErasesRest(h, action_handle_id) ==
  IF action_handle_id \notin DOMAIN h THEN h
  ELSE Drop(h, {j \in DOMAIN h : j >= action_handle_id})

\* clearAction on the handle, then erase; a missing id is ignored
StopAction(h, action_handle_id) ==
  IF action_handle_id \notin DOMAIN h THEN h
  ELSE Drop(h, {action_handle_id})

RECURSIVE StopAll(_, _)
StopAll(h, ids) ==
  IF ids = {} THEN h
  ELSE LET i == MinOf(ids) IN StopAll(StopAction(h, i), ids \ {i})

\* Faulty variant of StopUmrfGraph: only the nodes that are ACTIVE are stopped
StopUmrfGraphActiveOnly(gs, h, graph_name) ==
  IF graph_name \notin DOMAIN gs
  THEN Result(gs, h, "err_no_graph", 0)
  ELSE Result(Drop(gs, {graph_name}),
              StopAll(h, {i \in NodeIds(gs[graph_name]) :
                            gs[graph_name].nodes[i].st = "ACTIVE"}),
              "ok", 0)

StopUmrfGraph(gs, h, graph_name) ==
  IF graph_name \notin DOMAIN gs
  THEN Result(gs, h, "err_no_graph", 0)
  ELSE Result(Drop(gs, {graph_name}), StopAll(h, NodeIds(gs[graph_name])),
              "ok", 0)

-----------------------------------------------------------------------------
(* ActionExecutor::executeUmrfGraph *)

\* Faulty variant of ExecuteUmrfGraph: the test of the graph state is left out
ExecuteUmrfGraphAnyState(gs, h, graph_name, fail) ==
  IF graph_name \notin DOMAIN gs THEN Result(gs, h, "err_no_graph", 0)
  ELSE LET ugh == gs[graph_name]
           out == ExecuteById(h, ugh, getRootNodes(ugh), TRUE, fail)
       IN Result(Put(gs, graph_name, out.graph), out.handles, out.res, out.at)

ExecuteUmrfGraph(gs, h, graph_name, fail) ==
  IF graph_name \notin DOMAIN gs THEN Result(gs, h, "err_no_graph", 0)
  ELSE IF checkState(gs[graph_name]) # "INITIALIZED"
  THEN Result(gs, h, "err_state", 0)
  ELSE LET ugh == gs[graph_name]
           out == ExecuteById(h, ugh, getRootNodes(ugh), TRUE, fail)
       IN Result(Put(gs, graph_name, out.graph), out.handles, out.res, out.at)

-----------------------------------------------------------------------------
(* UmrfGraph mutations used by modifyGraph *)

\* UmrfGraph::addUmrf: a node that is not started; fails if the full name
\* is already in the graph (the caller tests ok before using graph)
addUmrf(g, name, id) ==
  [ok    |-> ~partOfGraphName(g, name),
   graph |-> [g EXCEPT !.nodes =
                Put(g.nodes, id, [name |-> name, correct |-> TRUE,
                                  parents |-> NoParents, st |-> "NOT_STARTED"])]]

\* UmrfGraph::removeUmrf: the node leaves the graph, the relations naming it
\* are pruned from the other nodes, and its id is returned
removeUmrf(g, name) ==
  IF ~partOfGraphName(g, name) THEN [ok |-> FALSE, graph |-> g, id |-> 0]
  ELSE LET id == getNodeId(g, name)
       IN [ok    |-> TRUE,
           id    |-> id,
           graph |-> [g EXCEPT !.nodes =
                        [i \in (DOMAIN g.nodes) \ {id} |->
                           [g.nodes[i] EXCEPT !.parents =
                              Drop(g.nodes[i].parents, {name})]]]]

\* UmrfGraph::addChild: an edge between two nodes of the graph
addChild(g, name, child) ==
  IF ~(partOfGraphName(g, name) /\ partOfGraphName(g, child))
  THEN [ok |-> FALSE, graph |-> g]
  ELSE LET c == getNodeId(g, child)
       IN [ok    |-> TRUE,
           graph |-> IF name \in DOMAIN g.nodes[c].parents THEN g
                     ELSE [g EXCEPT !.nodes[c].parents =
                             Put(g.nodes[c].parents, name, Rel(TRUE))]]

\* UmrfGraph::removeChild
removeChild(g, name, child) ==
  IF ~(partOfGraphName(g, name) /\ partOfGraphName(g, child))
  THEN [ok |-> FALSE, graph |-> g]
  ELSE LET c == getNodeId(g, child)
       IN [ok    |-> TRUE,
           graph |-> [g EXCEPT !.nodes[c].parents =
                        Drop(g.nodes[c].parents, {name})]]

-----------------------------------------------------------------------------
(* ActionExecutor::modifyGraph *)

Diff(op, name, child) == [op |-> op, name |-> name, child |-> child]

\* The diffs a caller submits; "rename_umrf" stands for an operation string
\* the executor does not know.
Diffs ==
  { Diff("add_umrf", "B", "B"), Diff("remove_umrf", "B", "B"),
    Diff("add_child", "A", "B"), Diff("remove_child", "A", "B"),
    Diff("rename_umrf", "A", "A") }

DiffLists == {<<d>> : d \in Diffs} \cup (Diffs \X Diffs)

AddCount(diffs) ==
  Cardinality({k \in 1 .. Len(diffs) : diffs[k].op = "add_umrf"})

\* Lines 369-388: every diff is tested against the graph as it is before
\* the call
DiffsValid(ugh, diffs) ==
  \A k \in 1 .. Len(diffs) :
    IF diffs[k].op = "add_umrf"
    THEN ~partOfGraphName(ugh, diffs[k].name)
    ELSE partOfGraphName(ugh, diffs[k].name)

\* at: the position in the list of the diff that raised the error, 0 if none
MResult(g, h, cnt, rem, res, at) ==
  [graph |-> g, handles |-> h, counter |-> cnt, removed |-> rem, res |-> res,
   at |-> at]

\* History of a remove_umrf: the id taken out and, when the node had not
\* started, the ids of its parents that were running at that time
Removal(g, h, id) ==
  [id      |-> id,
   running |-> IF g.nodes[id].st = "NOT_STARTED" /\ id \notin DOMAIN h
               THEN {p \in NodeIds(g) :
                       /\ g.nodes[p].name \in DOMAIN g.nodes[id].parents
                       /\ g.nodes[p].st = "ACTIVE"
                       /\ p \in DOMAIN h
                       /\ h[p].state = "RUNNING"}
               ELSE {}]

\* Lines 393-423: the diffs are applied one after the other; an error of a
\* graph operation or an unknown operation leaves the loop
RECURSIVE ApplyDiffs(_, _, _, _, _, _)
ApplyDiffs(g, h, cnt, rem, diffs, k) ==
  IF k > Len(diffs) THEN MResult(g, h, cnt, rem, "ok", 0)
  ELSE LET d == diffs[k]
       IN IF d.op = "add_umrf"
          THEN LET r == addUmrf(g, d.name, cnt)
               IN IF r.ok THEN ApplyDiffs(r.graph, h, cnt + 1, rem, diffs, k + 1)
                  ELSE MResult(g, h, cnt + 1, rem, "err_graph", k)
          ELSE IF d.op = "remove_umrf"
          THEN LET r == removeUmrf(g, d.name)
               IN IF r.ok
                  THEN ApplyDiffs(r.graph, StopAction(h, r.id), cnt,
                                  rem \cup {Removal(g, h, r.id)}, diffs, k + 1)
                  ELSE MResult(g, h, cnt, rem, "err_graph", k)
          ELSE IF d.op = "add_child"
          THEN LET r == addChild(g, d.name, d.child)
               IN IF r.ok THEN ApplyDiffs(r.graph, h, cnt, rem, diffs, k + 1)
                  ELSE MResult(g, h, cnt, rem, "err_graph", k)
          ELSE IF d.op = "remove_child"
          THEN LET r == removeChild(g, d.name, d.child)
               IN IF r.ok THEN ApplyDiffs(r.graph, h, cnt, rem, diffs, k + 1)
                  ELSE MResult(g, h, cnt, rem, "err_graph", k)
          ELSE MResult(g, h, cnt, rem, "err_operation", k)

\* The position of the first diff that fails the validation
FirstInvalid(ugh, diffs) ==
  CHOOSE k \in 1 .. Len(diffs) :
    /\ ~DiffsValid(ugh, SubSeq(diffs, k, k))
    /\ DiffsValid(ugh, SubSeq(diffs, 1, k - 1))

\* Faulty variant of ModifyGraph: each diff is validated right before it is applied
ModifyGraphValidatesInLoop(ugh, h, cnt, rem, diffs) ==
  IF DiffsValid(ugh, diffs) THEN ApplyDiffs(ugh, h, cnt, rem, diffs, 1)
  ELSE LET k == FirstInvalid(ugh, diffs)
           r == ApplyDiffs(ugh, h, cnt, rem, SubSeq(diffs, 1, k - 1), 1)
       IN MResult(r.graph, r.handles, r.counter, r.removed,
                  IF r.res = "ok" THEN "err_validation" ELSE r.res,
                  IF r.res = "ok" THEN k ELSE r.at)

\* For a graph that is held (a name not held returns at line 360)
ModifyGraph(ugh, h, cnt, rem, diffs) ==
  IF ~DiffsValid(ugh, diffs)
  THEN MResult(ugh, h, cnt, rem, "err_validation", FirstInvalid(ugh, diffs))
  ELSE ApplyDiffs(ugh, h, cnt, rem, diffs, 1)

-----------------------------------------------------------------------------
(* ActionExecutor::cleanupLoop: one wake of the loop body *)

Reapable(h) == {i \in DOMAIN h : h[i].state = "FINISHED" /\ h[i].ready}

\* Lines 144-190: the result of every finished handle is read, its node is
\* set finished in the graphs that hold it, the handle is cleared and stays
\* in the registry
\* Faulty variant of ReapHandles: the result of a finished handle is not read
ReapHandlesKeepsResult(h) == h

ReapHandles(h) == [i \in DOMAIN h |-> IF i \in Reapable(h) THEN Consumed(h[i]) ELSE h[i]]

\* Faulty variant of ReapNodes: a node whose handle carries an error result
\* is set to ERROR
ReapNodesErrorAware(gs, h) ==
  [n \in DOMAIN gs |->
     [gs[n] EXCEPT !.nodes = [i \in DOMAIN gs[n].nodes |->
                                IF i \in Reapable(h)
                                THEN [gs[n].nodes[i] EXCEPT
                                        !.st = IF h[i].error THEN "ERROR"
                                               ELSE "FINISHED"]
                                ELSE gs[n].nodes[i]]]]

ReapNodes(gs, h) ==
  [n \in DOMAIN gs |->
     [gs[n] EXCEPT !.nodes = [i \in DOMAIN gs[n].nodes |->
                                IF i \in Reapable(h)
                                THEN [gs[n].nodes[i] EXCEPT !.st = "FINISHED"]
                                ELSE gs[n].nodes[i]]]]

\* Lines 195-214: graphs whose state is FINISHED are erased
SweepGraphs(gs) == Drop(gs, {n \in DOMAIN gs : checkState(gs[n]) = "FINISHED"})

CleanupWake(gs, h) ==
  IF DOMAIN h = {} THEN Result(gs, h, "ok", 0)
  ELSE Result(SweepGraphs(ReapNodes(gs, h)), ReapHandles(h), "ok", 0)

-----------------------------------------------------------------------------
(* ActionExecutor::stopAndCleanUp and ActionExecutor::isActive *)

isActive(h) == \E i \in DOMAIN h : h[i].state = "RUNNING"

\* Lines 92-99: under the handles mutex every handle is told to stop
StopAllHandles(h) == [i \in DOMAIN h |-> Stopped(h[i])]

-----------------------------------------------------------------------------
(* The two recursive mutexes.  Each operation is the sequence of lock and   *)
(* unlock events it performs, in program order, calls included.             *)

Threads == {"t1", "t2"}

Locks == {"handles", "graphs"}

Lock(l) == [a |-> "lock", l |-> l]

Unlock(l) == [a |-> "unlock", l |-> l]

\* A lock guard around a block
Guarded(l, body) == <<Lock(l)>> \o body \o <<Unlock(l)>>

graphExistsLocks == Guarded("graphs", <<>>)

isActiveLocks == Guarded("handles", <<>>)

stopActionLocks == Guarded("handles", <<>>)

executeByIdLocks == Guarded("handles", Guarded("graphs", <<>>))

notifyFinishedLocks == Guarded("handles", Guarded("graphs", executeByIdLocks))

addUmrfGraphLocks == Guarded("graphs", graphExistsLocks)

updateActionHandlesLocks == Guarded("handles", Guarded("graphs", <<>>))

updateUmrfGraphLocks ==
  Guarded("graphs", graphExistsLocks \o updateActionHandlesLocks)

modifyGraphLocks ==
  Guarded("handles", Guarded("graphs", graphExistsLocks \o stopActionLocks))

executeUmrfGraphLocks ==
  Guarded("handles", Guarded("graphs", graphExistsLocks \o executeByIdLocks))

stopUmrfGraphLocks == Guarded("handles", Guarded("graphs", stopActionLocks))

\* One wake: the handle pass takes the graphs mutex around setNodeFinished,
\* the graph sweep takes it again, all under the handles mutex
cleanupLoopLocks ==
  Guarded("handles", Guarded("graphs", <<>>) \o Guarded("graphs", <<>>))

\* lock()/unlock() around the stop loop, then the polling of isActive
stopAndCleanUpLocks == Guarded("handles", <<>>) \o isActiveLocks

LockPrograms ==
  { notifyFinishedLocks, addUmrfGraphLocks, updateUmrfGraphLocks,
    modifyGraphLocks, executeUmrfGraphLocks, stopUmrfGraphLocks,
    stopActionLocks, cleanupLoopLocks, stopAndCleanUpLocks }

\* The thread t is at a lock event on a mutex another thread owns
Waiting(t) ==
  /\ locks.prog[t] # <<>>
  /\ Head(locks.prog[t]).a = "lock"
  /\ locks.owner[Head(locks.prog[t]).l] \notin {"none", t}

-----------------------------------------------------------------------------
(* The state machine *)

\* op: the operation, res: its outcome as the caller sees it, at: for
\* modifyGraph the position of the diff that raised the error, for an
\* activation the position in the batch of the id that failed (0 if none),
\* for stopUmrfGraph and stopAction the number of handles erased
\* g: the graph name the call was given, id: the id a completion or a
\* stopAction was about
Last(op, g, id, at, res) ==
  [op |-> op, g |-> g, id |-> id, at |-> at, res |-> res]

\* admitted[n] is the number of handles in the registry when the graph last
\* added under n was added, as long as only executeUmrfGraph, completions,
\* cleanup wakes that keep the graph and stopUmrfGraph have run since;
\* NoCount otherwise
NoCount == 0 - 1

Forget(gs) == [n \in GraphNames |-> IF n \in DOMAIN gs THEN admitted[n] ELSE NoCount]

\* The executor after construction
ExecutorInit ==
  /\ graphs = [n \in {} |-> 0]
  /\ handles = [i \in {} |-> 0]
  /\ counter = 0
  /\ removed = {}
  /\ admitted = [n \in GraphNames |-> NoCount]
  /\ last = Last("init", "none", 0, 0, "ok")
  /\ shutdown = [pc |-> "idle", spinning |-> TRUE, reaper |-> "running"]
  /\ locks = [owner |-> [l \in Locks |-> "none"],
              depth |-> [l \in Locks |-> 0],
              prog  |-> [t \in Threads |-> <<>>]]

NoOperands == [op |-> "none"]

\* An ActionBase object after construction: the flag, the value of the flag
\* its worker loaded last, the polls of the worker and the number of stopAction
\* calls
NoAction == [STOP_REQUESTED |-> FALSE, loaded |-> FALSE, polls |-> <<>>, stops |-> 0]

Init ==
  /\ ExecutorInit
  /\ operands = NoOperands
  /\ action = NoAction

DoAddUmrfGraph ==
  /\ UNCHANGED <<shutdown, locks, operands, action>>
  /\ \E n \in GraphNames, umrfs \in UmrfLists :
       /\ counter + Len(umrfs) <= MaxId
       /\ LET r == AddUmrfGraph(graphs, counter, n, umrfs)
          IN /\ graphs' = r.graphs
             /\ counter' = r.counter
             /\ admitted' = IF n \notin DOMAIN graphs /\ r.res = "ok"
                             THEN [admitted EXCEPT ![n] = Cardinality(DOMAIN handles)]
                             ELSE admitted
             /\ last' = Last("add", n, 0, 0, r.res)
       /\ UNCHANGED <<handles, removed>>

DoExecuteUmrfGraph ==
  /\ UNCHANGED <<shutdown, locks, operands, action>>
  /\ \E n \in GraphNames :
      \E fail \in Fails(IF n \in DOMAIN graphs THEN getRootNodes(graphs[n]) ELSE {}) :
       LET r == ExecuteUmrfGraph(graphs, handles, n, fail)
       IN /\ graphs' = r.graphs
          /\ handles' = r.handles
          /\ last' = Last("execute", n, 0, r.at, r.res)
          /\ UNCHANGED <<counter, removed, admitted>>

\* The worker of a running handle returns and reports to the executor
DoWorkerDone ==
  /\ UNCHANGED <<shutdown, locks, operands, action>>
  /\ \E id \in DOMAIN handles :
      \E fail \in Fails(NotifyBatch(graphs, id)) :
       /\ handles[id].state = "RUNNING"
       /\ LET h1 == [handles EXCEPT ![id] = Completed(handles[id])]
              r  == NotifyFinished(graphs, h1, id, fail)
          IN /\ graphs' = r.graphs
             /\ handles' = r.handles
             /\ last' = Last("notify", "none", id, r.at, r.res)
       /\ UNCHANGED <<counter, removed, admitted>>

\* The execute entry point of a running action raises
DoWorkerRaised ==
  /\ UNCHANGED <<shutdown, locks, operands, action>>
  /\ \E id \in DOMAIN handles :
       /\ handles[id].state = "RUNNING"
       /\ handles' = [handles EXCEPT ![id] = Raised(handles[id])]
       /\ last' = Last("raised", "none", id, 0, "ok")
       /\ UNCHANGED <<graphs, counter, removed, admitted>>

DoModifyGraph ==
  /\ UNCHANGED <<shutdown, locks, operands, action>>
  /\ \E n \in GraphNames, diffs \in DiffLists :
       /\ counter + AddCount(diffs) <= MaxId
       /\ IF n \notin DOMAIN graphs
          THEN /\ last' = Last("modify", n, 0, 0, "ignored")
               /\ UNCHANGED <<graphs, handles, counter, removed, admitted>>
          ELSE LET r == ModifyGraph(graphs[n], handles, counter, removed, diffs)
               IN /\ graphs' = [graphs EXCEPT ![n] = r.graph]
                  /\ handles' = r.handles
                  /\ counter' = r.counter
                  /\ removed' = r.removed
                  /\ admitted' = [admitted EXCEPT ![n] = NoCount]
                  /\ last' = Last("modify", n, 0, r.at, r.res)

DoStopUmrfGraph ==
  /\ UNCHANGED <<shutdown, locks, operands, action>>
  /\ \E n \in GraphNames :
       LET r == StopUmrfGraph(graphs, handles, n)
       IN /\ graphs' = r.graphs
          /\ handles' = r.handles
          /\ last' = Last("stop_graph", n, 0,
                          Cardinality(DOMAIN handles) - Cardinality(DOMAIN r.handles),
                          r.res)
          /\ UNCHANGED <<counter, removed, admitted>>

DoStopAction ==
  /\ UNCHANGED <<shutdown, locks, operands, action>>
  /\ \E id \in Ids :
       /\ handles' = StopAction(handles, id)
       /\ admitted' = [n \in GraphNames |-> NoCount]
       /\ last' = Last("stop_action", "none", id,
                        Cardinality(DOMAIN handles) - Cardinality(DOMAIN handles'),
                        "ok")
       /\ UNCHANGED <<graphs, counter, removed>>

DoCleanupWake ==
  /\ UNCHANGED <<shutdown, locks, operands, action>>
  /\ shutdown.spinning /\ shutdown.reaper = "running"
  /\ LET r == CleanupWake(graphs, handles)
     IN /\ graphs' = r.graphs
        /\ handles' = r.handles
        /\ admitted' = Forget(r.graphs)
        /\ last' = Last("cleanup", "none", 0, 0, r.res)
        /\ UNCHANGED <<counter, removed>>

Next ==
  \/ DoAddUmrfGraph
  \/ DoExecuteUmrfGraph
  \/ DoWorkerDone
  \/ DoModifyGraph
  \/ DoStopUmrfGraph
  \/ DoStopAction
  \/ DoCleanupWake

Spec == Init /\ [][Next]_vars

-----------------------------------------------------------------------------
(* The life of graphs from admission to shutdown: admission, launch, the   *)
(* workers, the cleanup task and stopAndCleanUp, whose steps interleave    *)
(* with the other operations.                                              *)

\* stopAndCleanUp, lines 92-99: every handle is stopped under the mutex
DoStopAll ==
  /\ shutdown.pc = "idle"
  /\ handles' = StopAllHandles(handles)
  /\ shutdown' = [shutdown EXCEPT !.pc = "polling"]
  /\ last' = Last("stop_all", "none", 0, 0, "ok")
  /\ UNCHANGED <<graphs, counter, removed, admitted, locks, operands, action>>

\* Lines 103-110: the polling of isActive ends and the flag is cleared.  The
\* cleanup task may have tested the flag just before: it then runs its loop
\* body once more ("late").
DoPollDone ==
  /\ shutdown.pc = "polling"
  /\ ~isActive(handles)
  /\ \E r \in (IF shutdown.reaper = "running" THEN {"running", "late"}
                ELSE {shutdown.reaper}) :
       shutdown' = [pc |-> "joining", spinning |-> FALSE, reaper |-> r]
  /\ UNCHANGED <<graphs, handles, counter, removed, admitted, last, locks, operands, action>>

\* cleanupLoop: the loop body of a task that passed the test of the flag
\* before the flag was cleared
DoCleanupLate ==
  /\ shutdown.reaper = "late"
  /\ LET r == CleanupWake(graphs, handles)
     IN /\ graphs' = r.graphs
        /\ handles' = r.handles
        /\ admitted' = Forget(r.graphs)
        /\ last' = Last("cleanup", "none", 0, 0, r.res)
  /\ shutdown' = [shutdown EXCEPT !.reaper = "running"]
  /\ UNCHANGED <<counter, removed, locks, operands, action>>

\* cleanupLoop, line 138: the task finds the flag cleared and returns
DoReaperExit ==
  /\ shutdown.reaper = "running"
  /\ ~shutdown.spinning
  /\ shutdown' = [shutdown EXCEPT !.reaper = "exited"]
  /\ UNCHANGED <<graphs, handles, counter, removed, admitted, last, locks, operands, action>>

\* Lines 111-124: the future of the cleanup task is ready, the call returns
\* true
DoShutdownReturn ==
  /\ shutdown.pc = "joining"
  /\ shutdown.reaper = "exited"
  /\ shutdown' = [shutdown EXCEPT !.pc = "idle"]
  /\ last' = Last("shutdown", "none", 0, 0, "true")
  /\ UNCHANGED <<graphs, handles, counter, removed, admitted, locks, operands, action>>

LifeNext ==
  \/ DoAddUmrfGraph
  \/ DoExecuteUmrfGraph
  \/ DoWorkerDone
  \/ DoWorkerRaised
  \/ DoCleanupWake
  \/ DoStopAll
  \/ DoPollDone
  \/ DoCleanupLate
  \/ DoReaperExit
  \/ DoShutdownReturn

LifeSpec == Init /\ [][LifeNext]_vars

-----------------------------------------------------------------------------
(* The threads of the executor taking and releasing the two mutexes *)

\* A thread enters one of the operations
DoBegin ==
  /\ \E t \in Threads, prog \in LockPrograms :
       /\ locks.prog[t] = <<>>
       /\ locks' = [locks EXCEPT !.prog[t] = prog]
  /\ UNCHANGED <<graphs, handles, counter, removed, admitted, last, shutdown, operands, action>>

\* std::recursive_mutex::lock: free, or owned by the calling thread
DoLock ==
  /\ \E t \in Threads :
       /\ locks.prog[t] # <<>>
       /\ Head(locks.prog[t]).a = "lock"
       /\ ~Waiting(t)
       /\ LET l == Head(locks.prog[t]).l
          IN locks' = [owner |-> [locks.owner EXCEPT ![l] = t],
                       depth |-> [locks.depth EXCEPT ![l] = @ + 1],
                       prog  |-> [locks.prog EXCEPT ![t] = Tail(@)]]
  /\ UNCHANGED <<graphs, handles, counter, removed, admitted, last, shutdown, operands, action>>

DoUnlock ==
  /\ \E t \in Threads :
       /\ locks.prog[t] # <<>>
       /\ Head(locks.prog[t]).a = "unlock"
       /\ LET l == Head(locks.prog[t]).l
          IN locks' = [owner |-> [locks.owner EXCEPT
                                   ![l] = IF locks.depth[l] = 1 THEN "none" ELSE @],
                       depth |-> [locks.depth EXCEPT ![l] = @ - 1],
                       prog  |-> [locks.prog EXCEPT ![t] = Tail(@)]]
  /\ UNCHANGED <<graphs, handles, counter, removed, admitted, last, shutdown, operands, action>>

LockNext ==
  \/ DoBegin
  \/ DoLock
  \/ DoUnlock

LockSpec == Init /\ [][LockNext]_vars

-----------------------------------------------------------------------------
(* Umrf as an object of its own (src/src/umrf.cpp): the descriptor with    *)
(* its relation sequences and parameter bags.  ActionParameters and        *)
(* Umrf::Relation are declared outside the sources at hand and follow      *)
(* section 3 of the specification: a bag is keyed by parameter name, a     *)
(* relation is identified by the name and suffix of the node it points to. *)

\* Bound of the length of a relation sequence (parents_, children_)
MaxRel == 2

\* ActionParameters::ParameterContainer without its name, which is the key
\* of the bag
Param(type, required, updatable, allowed, data) ==
  [type |-> type, required |-> required, updatable |-> updatable,
   allowed |-> allowed, data |-> data]

\* ParameterContainer::isEqualNoData: everything except the data
isEqualNoData(p, q) ==
  /\ p.type = q.type
  /\ p.required = q.required
  /\ p.updatable = q.updatable
  /\ p.allowed = q.allowed

\* ParameterContainer::isEqualNoDataNoUpdate: everything except the data and
\* the updatable flag
isEqualNoDataNoUpdate(p, q) ==
  /\ p.type = q.type
  /\ p.required = q.required
  /\ p.allowed = q.allowed

NoParams == [x \in {} |-> 0]

getParameterCount(bag) == Cardinality(DOMAIN bag)

hasParameter(bag, name) == name \in DOMAIN bag

Relation(name, suffix, required) ==
  [name |-> name, suffix |-> suffix, required |-> required, received |-> FALSE]

\* Umrf::Relation::operator==
RelationEq(r, s) == r.name = s.name /\ r.suffix = s.suffix

\* std::find(rels.begin(), rels.end(), r) != rels.end()
Found(rels, r) == \E k \in 1 .. Len(rels) : RelationEq(rels[k], r)

Umrf(name, suffix, notation, effect, parents, children, inputs, outputs) ==
  [name |-> name, suffix |-> suffix, notation |-> notation, effect |-> effect,
   parents |-> parents, children |-> children,
   input_parameters |-> inputs, output_parameters |-> outputs]

\* Umrf::isEqual, in the order of its tests
isEqual(this, umrf_in, check_updatable) ==
  IF \/ this.name # umrf_in.name
     \/ this.suffix # umrf_in.suffix
     \/ this.notation # umrf_in.notation
     \/ this.effect # umrf_in.effect
  THEN FALSE
  ELSE IF \/ Len(this.children) # Len(umrf_in.children)
          \/ Len(this.parents) # Len(umrf_in.parents)
  THEN FALSE
  ELSE IF \E k \in 1 .. Len(umrf_in.parents) :
            ~Found(this.parents, umrf_in.parents[k])
  THEN FALSE
  ELSE IF \E k \in 1 .. Len(umrf_in.children) :
            ~Found(this.children, umrf_in.children[k])
  THEN FALSE
  ELSE IF \/ getParameterCount(this.input_parameters)
              # getParameterCount(umrf_in.input_parameters)
          \/ getParameterCount(this.output_parameters)
              # getParameterCount(umrf_in.output_parameters)
  THEN FALSE
  ELSE IF \E n \in DOMAIN this.input_parameters :
            \/ ~hasParameter(umrf_in.input_parameters, n)
            \/ /\ check_updatable
               /\ ~isEqualNoData(this.input_parameters[n],
                                 umrf_in.input_parameters[n])
            \/ /\ ~check_updatable
               /\ ~isEqualNoDataNoUpdate(this.input_parameters[n],
                                         umrf_in.input_parameters[n])
  THEN FALSE
  ELSE IF \E n \in DOMAIN this.output_parameters :
            \/ ~hasParameter(umrf_in.output_parameters, n)
            \/ ~isEqualNoData(this.output_parameters[n],
                              umrf_in.output_parameters[n])
  THEN FALSE
  ELSE TRUE

-----------------------------------------------------------------------------
(* Umrf::isEqual applied to descriptors drawn from a bounded set *)

Relations == {Relation("P", 0, TRUE), Relation("Q", 0, TRUE)}

\* The relation sequences of length at most MaxRel, repeated relations included
RelSeqs == UNION {[1 .. k -> Relations] : k \in 0 .. MaxRel}

InputBags ==
  {NoParams}
    \cup {[n \in {"x"} |-> Param(ty, TRUE, u, {}, d)] :
            ty \in {"int", "str"}, u \in BOOLEAN, d \in {"", "d"}}
    \cup {[n \in {"x"} |-> Param("int", FALSE, TRUE, {}, "")],
          [n \in {"x"} |-> Param("int", TRUE, TRUE, {"d"}, "")],
          [n \in {"y"} |-> Param("int", TRUE, TRUE, {}, "")]}

OutputBags ==
  {NoParams,
   [n \in {"o"} |-> Param("int", FALSE, FALSE, {}, "")],
   [n \in {"o"} |-> Param("str", FALSE, FALSE, {}, "")]}

BaseUmrf == Umrf("A", 0, "n", "synchronous", <<>>, <<>>, NoParams, NoParams)

\* The base descriptor and the descriptors that differ from it in one part
Umrfs ==
  {BaseUmrf}
    \cup {[BaseUmrf EXCEPT !.name = "B"], [BaseUmrf EXCEPT !.suffix = 1],
          [BaseUmrf EXCEPT !.notation = "m"],
          [BaseUmrf EXCEPT !.effect = "asynchronous"]}
    \cup {[BaseUmrf EXCEPT !.parents = s] : s \in RelSeqs}
    \cup {[BaseUmrf EXCEPT !.children = s] : s \in RelSeqs}
    \cup {[BaseUmrf EXCEPT !.input_parameters = b] : b \in InputBags}
    \cup {[BaseUmrf EXCEPT !.output_parameters = b] : b \in OutputBags}

EqInit ==
  /\ ExecutorInit
  /\ action = NoAction
  /\ \E a, b, c \in Umrfs : operands = [op |-> "drawn", a |-> a, b |-> b, c |-> c]

\* isEqual is called on the pairs of the three descriptors
DoIsEqual ==
  /\ operands.op = "drawn"
  /\ \E cu \in BOOLEAN :
       operands' = [op |-> "isEqual", a |-> operands.a, b |-> operands.b,
                    c |-> operands.c, check_updatable |-> cu,
                    aa |-> isEqual(operands.a, operands.a, cu),
                    ab |-> isEqual(operands.a, operands.b, cu),
                    ba |-> isEqual(operands.b, operands.a, cu),
                    bc |-> isEqual(operands.b, operands.c, cu),
                    ac |-> isEqual(operands.a, operands.c, cu)]
  /\ UNCHANGED <<graphs, handles, counter, removed, admitted, last, shutdown,
                 locks, action>>

EqNext == DoIsEqual

EqSpec == EqInit /\ [][EqNext]_vars

-----------------------------------------------------------------------------
(* Umrf::updateInputParams *)

\* ActionParameters::setParameter(name, p): upsert by name.  A parameter
\* already in the bag is replaced when the incoming one has its shape
\* (isEqualNoDataNoUpdate); an incoming parameter of another shape is
\* refused and the call returns false.
setParameter(bag, name, p) ==
  IF ~hasParameter(bag, name)
  THEN [bag |-> Put(bag, name, p), ok |-> TRUE]
  ELSE IF isEqualNoDataNoUpdate(bag[name], p)
  THEN [bag |-> Put(bag, name, p), ok |-> TRUE]
  ELSE [bag |-> bag, ok |-> FALSE]

\* Umrf::setInputParameter
setInputParameter(this, name, p) ==
  LET r == setParameter(this.input_parameters, name, p)
  IN [umrf |-> [this EXCEPT !.input_parameters = r.bag], ok |-> r.ok]

\* The loop of Umrf::updateInputParams over the parameters of umrf_in that
\* are still to be visited
RECURSIVE UpdateLoopAnyParam(_, _, _, _)
UpdateLoopAnyParam(this, umrf_in, todo, parameters_updated) ==
  IF todo = {} THEN [umrf |-> this, res |-> parameters_updated]
  ELSE LET n == CHOOSE x \in todo : TRUE
           p == umrf_in.input_parameters[n]
       IN IF ~hasParameter(this.input_parameters, n)
          THEN UpdateLoopAnyParam(this, umrf_in, todo \ {n}, parameters_updated)
          ELSE LET r == setInputParameter(this, n, p)
               IN IF ~r.ok
                  THEN UpdateLoopAnyParam(this, umrf_in, todo \ {n}, parameters_updated)
                  ELSE UpdateLoopAnyParam(r.umrf, umrf_in, todo \ {n}, TRUE)

RECURSIVE UpdateLoop(_, _, _, _)
UpdateLoop(this, umrf_in, todo, parameters_updated) ==
  IF todo = {} THEN [umrf |-> this, res |-> parameters_updated]
  ELSE LET n == CHOOSE x \in todo : TRUE
           p == umrf_in.input_parameters[n]
       IN IF ~hasParameter(this.input_parameters, n)
          THEN UpdateLoop(this, umrf_in, todo \ {n}, parameters_updated)
          ELSE IF ~this.input_parameters[n].updatable
          THEN UpdateLoop(this, umrf_in, todo \ {n}, parameters_updated)
          ELSE LET r == setInputParameter(this, n, p)
               IN IF ~r.ok
                  THEN UpdateLoop(this, umrf_in, todo \ {n}, parameters_updated)
                  ELSE UpdateLoop(r.umrf, umrf_in, todo \ {n}, TRUE)

\* Umrf::updateInputParams: the node after the call and the value returned
updateInputParams(this, umrf_in) ==
  UpdateLoop(this, umrf_in, DOMAIN umrf_in.input_parameters, FALSE)

ParamValues ==
  {Param("int", TRUE, u, {}, d) : u \in BOOLEAN, d \in {"", "d"}}
    \cup {Param("str", TRUE, TRUE, {}, "d"), Param("int", FALSE, TRUE, {}, "d"),
          Param("int", TRUE, TRUE, {"d"}, "d")}

\* The bags over the parameter names x and y
ParamBags ==
  UNION {[S -> ParamValues] : S \in SUBSET {"x", "y"}}

ParamInit ==
  /\ ExecutorInit
  /\ action = NoAction
  /\ \E b, c \in ParamBags :
       operands = [op |-> "drawn",
                   this |-> [BaseUmrf EXCEPT !.input_parameters = b],
                   umrf_in |-> [BaseUmrf EXCEPT !.input_parameters = c]]

DoUpdateInputParams ==
  /\ operands.op = "drawn"
  /\ LET r == updateInputParams(operands.this, operands.umrf_in)
     IN operands' = [op |-> "updateInputParams", this |-> operands.this,
                     umrf_in |-> operands.umrf_in, after |-> r.umrf,
                     res |-> r.res]
  /\ UNCHANGED <<graphs, handles, counter, removed, admitted, last, shutdown,
                 locks, action>>

ParamNext == DoUpdateInputParams

ParamSpec == ParamInit /\ [][ParamNext]_vars

-----------------------------------------------------------------------------
(* updateUmrfGraph and updateActionHandles.  Here a node of a held graph   *)
(* and a handle carry the Umrf they were built from (field umrf).          *)

\* Bound of the length of the node list handed to updateUmrfGraph
MaxVec == 3

\* Umrf::getFullName: name_ + "_" + std::to_string(suffix_)
getFullName(u) == <<u.name, "_", u.suffix>>

\* ActionHandle::updateUmrf: the handle's copy of the node takes the
\* updatable input parameters of umrf_in
updateUmrf(h, umrf_in) ==
  [h EXCEPT !.umrf = updateInputParams(h.umrf, umrf_in).umrf]

\* The loop of updateActionHandles from position k of umrf_vec on
RECURSIVE UpdateHandlesLoop(_, _, _, _)
UpdateHandlesLoop(ugh, h, umrf_vec, k) ==
  IF k > Len(umrf_vec) THEN h
  ELSE LET handle_id == getNodeId(ugh, getFullName(umrf_vec[k]))
       IN IF handle_id \notin DOMAIN h
          THEN UpdateHandlesLoop(ugh, h, umrf_vec, k + 1)
          ELSE UpdateHandlesLoop(ugh,
                 [h EXCEPT ![handle_id] = updateUmrf(h[handle_id], umrf_vec[k])],
                 umrf_vec, k + 1)

\* ActionExecutor::updateActionHandles
updateActionHandles(ugh, h, umrf_vec) == UpdateHandlesLoop(ugh, h, umrf_vec, 1)

\* Lines 297-313: some node of the graph has no equal node in umrfs_vec
UmrfNotFound(ugh, umrfs_vec) ==
  \E i \in NodeIds(ugh) :
    \A k \in 1 .. Len(umrfs_vec) : ~isEqual(ugh.nodes[i].umrf, umrfs_vec[k], FALSE)

updateUmrfGraphUnsized(gs, h, graph_name, umrfs_vec) ==
  IF graph_name \notin DOMAIN gs THEN [handles |-> h, res |-> "error"]
  ELSE IF UmrfNotFound(gs[graph_name], umrfs_vec)
  THEN [handles |-> h, res |-> "error"]
  ELSE [handles |-> updateActionHandles(gs[graph_name], h,
                      SelectSeq(umrfs_vec,
                        LAMBDA u : partOfGraphName(gs[graph_name], getFullName(u)))),
        res |-> "ok"]

\* ActionExecutor::updateUmrfGraph: the handles after the call and its outcome
updateUmrfGraph(gs, h, graph_name, umrfs_vec) ==
  IF graph_name \notin DOMAIN gs THEN [handles |-> h, res |-> "error"]
  ELSE IF Len(umrfs_vec) # GraphSize(gs[graph_name])
  THEN [handles |-> h, res |-> "error"]
  ELSE IF UmrfNotFound(gs[graph_name], umrfs_vec)
  THEN [handles |-> h, res |-> "error"]
  ELSE [handles |-> updateActionHandles(gs[graph_name], h, umrfs_vec),
        res |-> "ok"]

\* The graph A_0 -> B_0 with its input parameters
UmrfA ==
  Umrf("A", 0, "n", "synchronous", <<>>, <<Relation("B", 0, TRUE)>>,
       [n \in {"x", "y"} |-> IF n = "x" THEN Param("int", TRUE, TRUE, {}, "")
                                         ELSE Param("int", TRUE, FALSE, {}, "")],
       NoParams)

UmrfB ==
  Umrf("B", 0, "n", "synchronous", <<Relation("A", 0, TRUE)>>, <<>>,
       [n \in {"x"} |-> Param("str", TRUE, TRUE, {}, "")], NoParams)

\* The graph after addUmrfGraph, executeUmrfGraph and the completions and
\* stopAction calls that leave handles for the ids in H
HeldGraph(H) ==
  [nodes |-> [i \in {0, 1} |->
                [name    |-> getFullName(IF i = 0 THEN UmrfA ELSE UmrfB),
                 correct |-> TRUE,
                 parents |-> IF i = 0 THEN NoParents
                             ELSE [x \in {getFullName(UmrfA)} |->
                                     [required |-> TRUE, received |-> 1 \in H]],
                 st      |-> IF H = {} \/ (i = 1 /\ 1 \notin H)
                             THEN "NOT_STARTED" ELSE "ACTIVE",
                 umrf    |-> IF i = 0 THEN UmrfA ELSE UmrfB]],
   state |-> IF H = {} THEN "INITIALIZED" ELSE "ACTIVE"]

HeldHandles(H) ==
  [i \in H |->
     [state |-> IF i = 0 /\ 1 \in H THEN "FINISHED" ELSE "RUNNING",
      ready |-> (i = 0 /\ 1 \in H), error |-> FALSE,
      umrf  |-> IF i = 0 THEN UmrfA ELSE UmrfB]]

\* Nodes a caller hands to updateUmrfGraph
IncomingUmrfs ==
  {UmrfB,
   [UmrfA EXCEPT !.input_parameters["x"].data = "d"],
   [UmrfA EXCEPT !.input_parameters["y"].data = "d"],
   [UmrfA EXCEPT !.input_parameters["x"].type = "str"],
   [UmrfA EXCEPT !.input_parameters["x"].updatable = FALSE,
                 !.input_parameters["x"].data = "d"],
   [UmrfB EXCEPT !.input_parameters["x"].data = "d"],
   [UmrfB EXCEPT !.parents = <<>>]}

UmrfVecs == UNION {[1 .. k -> IncomingUmrfs] : k \in 0 .. MaxVec}

UpdateInit ==
  /\ counter = 2
  /\ removed = {}
  /\ admitted = [n \in GraphNames |-> NoCount]
  /\ last = Last("init", "none", 0, 0, "ok")
  /\ shutdown = [pc |-> "idle", spinning |-> TRUE, reaper |-> "running"]
  /\ locks = [owner |-> [l \in Locks |-> "none"],
              depth |-> [l \in Locks |-> 0],
              prog  |-> [t \in Threads |-> <<>>]]
  /\ operands = NoOperands
  /\ action = NoAction
  /\ \E H \in SUBSET {0, 1} :
       /\ graphs = [n \in {"g1"} |-> HeldGraph(H)]
       /\ handles = HeldHandles(H)

\* One call of updateUmrfGraph on the executor drawn by UpdateInit
DoUpdateUmrfGraph ==
  /\ operands = NoOperands
  /\ \E graph_name \in {"g1", "g2"}, umrfs_vec \in UmrfVecs :
       LET r == updateUmrfGraph(graphs, handles, graph_name, umrfs_vec)
       IN /\ handles' = r.handles
          /\ last' = Last("update", graph_name, 0, 0, r.res)
          /\ operands' = [op |-> "updateUmrfGraph", umrfs_vec |-> umrfs_vec]
  /\ UNCHANGED <<graphs, counter, removed, admitted, shutdown, locks, action>>

UpdateNext == DoUpdateUmrfGraph

UpdateSpec == UpdateInit /\ [][UpdateNext]_vars

-----------------------------------------------------------------------------
(* ActionBase (action_base.h): the stop flag, written by the thread that   *)
(* calls stopAction and read by the worker that polls actionOk.  The flag  *)
(* STOP_REQUESTED_ is a plain bool (line 126) and neither method takes a   *)
(* lock: a poll that runs concurrently with or after a stopAction of       *)
(* another thread is a data race, and a build may serve the read from      *)
(* memory or from the value the worker loaded before.                      *)

\* Bounds of the number of polls and of stopAction calls in a behaviour
MaxPolls == 4

MaxStops == 2

\* ActionBase::stopAction
stopAction(a) == [a EXCEPT !.STOP_REQUESTED = TRUE, !.stops = @ + 1]

\* The values of STOP_REQUESTED_ a read by the worker can yield: the value
\* in memory, or the value the worker holds from its last load
FlagReads(a) == {a.STOP_REQUESTED, a.loaded}

\* ActionBase::actionOk, for a read of the flag that yields v
actionOk(v) == ~v

ActionInit ==
  /\ ExecutorInit
  /\ operands = NoOperands
  /\ action = NoAction

\* Another thread calls stopAction
DoStopRequest ==
  /\ action.stops < MaxStops
  /\ action' = stopAction(action)
  /\ UNCHANGED <<graphs, handles, counter, removed, admitted, last, shutdown,
                 locks, operands>>

\* The worker polls actionOk; the poll is recorded with the number of
\* stopAction calls that returned before it
DoPoll ==
  /\ Len(action.polls) < MaxPolls
  /\ \E v \in FlagReads(action) :
       action' = [action EXCEPT
                    !.loaded = v,
                    !.polls = Append(@, [ok |-> actionOk(v), stops |-> action.stops])]
  /\ UNCHANGED <<graphs, handles, counter, removed, admitted, last, shutdown,
                 locks, operands>>

ActionNext ==
  \/ DoStopRequest
  \/ DoPoll

ActionSpec == ActionInit /\ [][ActionNext]_vars

-----------------------------------------------------------------------------
(* The exit paths of stopAndCleanUp.  The mutex of the handles is taken    *)
(* with lock() at line 92 and given back with unlock() at line 99, with no *)
(* guard object and no try block around the loop between them.             *)

\* ActionHandle::stopAction(4) raises at line 97: the call is left at that
\* line, past neither line 99 nor the polling
stopAndCleanUpRaisedLocks == <<Lock("handles")>>

ExitPaths == LockPrograms \cup {stopAndCleanUpRaisedLocks}

\* The recursion depth the mutex of the handles is followed to
MaxDepth == 2

\* A thread enters one of the operations and takes one of its paths
DoBeginPath ==
  /\ \E t \in Threads, prog \in ExitPaths :
       /\ locks.prog[t] = <<>>
       /\ prog = stopAndCleanUpRaisedLocks => locks.depth["handles"] < MaxDepth
       /\ locks' = [locks EXCEPT !.prog[t] = prog]
  /\ UNCHANGED <<graphs, handles, counter, removed, admitted, last, shutdown,
                 operands, action>>

ExitNext ==
  \/ DoBeginPath
  \/ DoLock
  \/ DoUnlock

ExitSpec == Init /\ [][ExitNext]_vars

-----------------------------------------------------------------------------
(* ActionExecutor::cleanupLoop when a call inside its try block raises.    *)
(* The block (lines 155-184) has one handler, catch(TemotoErrorStack) at   *)
(* line 180; the loop body and the loop have no other.                     *)

\* The calls inside the try block, in program order
ReapCalls == <<"getFutureValue", "setNodeFinished", "clearAction">>

\* What is raised: a TemotoErrorStack, or any other exception type
Thrown == {"TemotoErrorStack", "other"}

Faults(h) == [id : Reapable(h), call : 1 .. Len(ReapCalls), thrown : Thrown]

\* The handles the loop of lines 144-190 has visited when the exception of
\* the fault leaves it: all of them when line 180 catches it, the ones up to
\* the faulty handle (the table is ordered by id) when nothing catches it
Visited(h, fault) ==
  IF fault.thrown = "TemotoErrorStack" THEN Reapable(h) \ {fault.id}
  ELSE {i \in Reapable(h) : i < fault.id}

\* Line 157 has read the result when the raising call comes after it
FaultyHandle(h, fault) == IF fault.call > 1 THEN Consumed(h) ELSE h

\* Lines 164-174 have run when the raising call is clearAction (line 176)
FaultyNodes(gs, h, fault) ==
  IF fault.call = 3 THEN ReapNodes(gs, [i \in {fault.id} |-> h[i]]) ELSE gs

CleanupWakeRaised(gs, h, fault) ==
  LET seen == [i \in Visited(h, fault) |-> h[i]]
      h1 == [i \in DOMAIN h |->
               IF i \in Visited(h, fault) THEN Consumed(h[i])
               ELSE IF i = fault.id THEN FaultyHandle(h[i], fault)
               ELSE h[i]]
      g1 == ReapNodes(FaultyNodes(gs, h, fault), seen)
  IN IF fault.thrown = "TemotoErrorStack"
     THEN Result(SweepGraphs(g1), h1, "caught", 0)
     ELSE Result(g1, h1, "uncaught", 0)

\* A wake in which one call on one finished handle raises.  An exception
\* nothing catches leaves cleanupLoop: the cleanup task ends with it.
DoCleanupRaised ==
  /\ UNCHANGED <<locks, operands, action>>
  /\ shutdown.spinning /\ shutdown.reaper = "running"
  /\ \E fault \in Faults(handles) :
       LET r == CleanupWakeRaised(graphs, handles, fault)
       IN /\ graphs' = r.graphs
          /\ handles' = r.handles
          /\ admitted' = Forget(r.graphs)
          /\ shutdown' = IF r.res = "uncaught"
                         THEN [shutdown EXCEPT !.reaper = "exited"]
                         ELSE shutdown
          /\ last' = Last("cleanup_raised", "none", fault.id, fault.call, r.res)
          /\ UNCHANGED <<counter, removed>>

ReapNext ==
  \/ DoAddUmrfGraph
  \/ DoExecuteUmrfGraph
  \/ DoWorkerDone
  \/ DoCleanupWake
  \/ DoCleanupRaised

ReapSpec == Init /\ [][ReapNext]_vars

-----------------------------------------------------------------------------
(* Graphs with a child whose descriptor is not correct: its ActionHandle   *)
(* does not reach INITIALIZED in the creation loop of executeById.         *)

PendingLists ==
  { <<Desc("A", TRUE, NoParents), Desc("B", FALSE, Parents({"A"})),
      Desc("C", TRUE, Parents({"A"}))>>,
    <<Desc("A", TRUE, NoParents), Desc("C", TRUE, Parents({"A"})),
      Desc("B", FALSE, Parents({"A", "C"}))>>,
    <<Desc("A", TRUE, NoParents), Desc("B", FALSE, Parents({"A"}))>>,
    <<Desc("A", TRUE, NoParents), Desc("C", TRUE, Parents({"A"})),
      Desc("B", TRUE, Parents({"A", "C"}))>> }

DoAddPending ==
  /\ UNCHANGED <<shutdown, locks, operands, action>>
  /\ \E n \in GraphNames, umrfs \in PendingLists :
       /\ counter + Len(umrfs) <= MaxId
       /\ LET r == AddUmrfGraph(graphs, counter, n, umrfs)
          IN /\ graphs' = r.graphs
             /\ counter' = r.counter
             /\ admitted' = IF n \notin DOMAIN graphs /\ r.res = "ok"
                             THEN [admitted EXCEPT ![n] = Cardinality(DOMAIN handles)]
                             ELSE admitted
             /\ last' = Last("add", n, 0, 0, r.res)
       /\ UNCHANGED <<handles, removed>>

PendNext ==
  \/ DoAddPending
  \/ DoExecuteUmrfGraph
  \/ DoWorkerDone
  \/ DoCleanupWake
  \/ DoStopUmrfGraph

PendSpec == Init /\ [][PendNext]_vars

-----------------------------------------------------------------------------
(* notifyFinished step by step, next to the other operations of the        *)
(* executor running on another thread.  A program is the sequence of the   *)
(* lock events, unlock events and steps of an operation in program order;  *)
(* a step is the work the operation does between two lock events.          *)

Step(s, id) == [a |-> s, l |-> "none", id |-> id]

\* ParameterContainer::copyParameters: for each parameter of other that is
\* present here, the data is overwritten
copyParameters(bag, other) ==
  [x \in DOMAIN bag |->
     IF x \in DOMAIN other THEN [bag[x] EXCEPT !.data = other[x].data]
     ELSE bag[x]]

\* Umrf::copyInputParameters, on the input bag of the node
copyInputParameters(input_parameters, action_parameters) ==
  copyParameters(input_parameters, action_parameters)

\* Lines 513-514 and 607: the guards of executeById around the creation
\* phase (523-543) and the instantiate and execute phases (549-593)
executeByIdSteps ==
  Guarded("handles", Guarded("graphs", <<Step("construct", 0), Step("start", 0)>>))

\* Faulty variant of notifyFinishedSteps: the guards of lines 34-35 are
\* left out
notifyFinishedUnguarded == <<Step("copy", 0)>> \o executeByIdSteps

\* Lines 34-35: both guards; 52-57: the copy loop; 58: executeById
notifyFinishedSteps ==
  Guarded("handles", Guarded("graphs", <<Step("copy", 0)>> \o executeByIdSteps))

stopActionSteps(id) == Guarded("handles", <<Step("stopAction", id)>>)

stopUmrfGraphSteps ==
  Guarded("handles", Guarded("graphs", <<Step("stopUmrfGraph", 0)>>))

executeUmrfGraphSteps ==
  Guarded("handles", Guarded("graphs", <<Step("executeUmrfGraph", 0)>>))

addUmrfGraphSteps == Guarded("graphs", <<Step("addUmrfGraph", 0)>>)

\* Lines 275 and 318: the checks run under the graphs mutex, the handles
\* are updated by updateActionHandles under both
updateUmrfGraphSteps ==
  Guarded("graphs",
          Guarded("handles", Guarded("graphs", <<Step("updateActionHandles", 0)>>)))

\* One wake: the handle pass, then the sweep
cleanupLoopSteps ==
  Guarded("handles", Guarded("graphs", <<Step("reap", 0)>>)
                       \o Guarded("graphs", <<Step("sweep", 0)>>))

OtherPrograms ==
  {stopActionSteps(id) : id \in {0, 1}}
    \cup {stopUmrfGraphSteps, executeUmrfGraphSteps, addUmrfGraphSteps,
          updateUmrfGraphSteps, cleanupLoopSteps}

\* The state a step works on and leaves, with the outcome of the step
StepState(gs, h, cnt, ops, res) ==
  [graphs |-> gs, handles |-> h, counter |-> cnt, operands |-> ops, res |-> res]

\* The Umrf copies of the handles that are left
BuiltOf(ops, h) ==
  [ops EXCEPT !.built = [c \in DOMAIN @ \cap DOMAIN h |-> @[c]]]

\* Lines 42-46: the graph is ACTIVE and the parent has children in it
Notifiable(gs, n, parent_id) ==
  /\ n \in DOMAIN gs
  /\ checkState(gs[n]) = "ACTIVE"
  /\ getChildrenOf(gs[n], parent_id) # {}

\* Lines 52-57
CopyStep(gs, h, cnt, ops, n) ==
  IF ~Notifiable(gs, n, ops.parent) THEN StepState(gs, h, cnt, ops, "skipped")
  ELSE LET ch == getChildrenOf(gs[n], ops.parent)
       IN StepState(Put(gs, n, Propagate(gs[n], ops.parent, ch)), h, cnt,
                    [ops EXCEPT !.inputs =
                       [c \in DOMAIN @ |->
                          IF c \in ch THEN copyInputParameters(@[c], ops.outputs)
                          ELSE @[c]]],
                    "ok")

\* Lines 523-543: a handle is constructed from the Umrf of every child and
\* the initialized ones are inserted; a handle keeps the copy of the Umrf
\* it was constructed from
ConstructStep(gs, h, cnt, ops, n) ==
  IF ~Notifiable(gs, n, ops.parent) THEN StepState(gs, h, cnt, ops, "skipped")
  ELSE LET ch   == getChildrenOf(gs[n], ops.parent)
           init == {i \in ch : NewHandle(gs[n].nodes[i]).state = "INITIALIZED"}
           new  == init \ DOMAIN h
       IN StepState(gs, BulkInsert(h, gs[n], init), cnt,
                    [ops EXCEPT !.built =
                       [c \in DOMAIN @ \cup new |->
                          IF c \in new
                          THEN IF c \in DOMAIN ops.inputs THEN ops.inputs[c]
                               ELSE NoParams
                          ELSE @[c]]],
                    "ok")

\* Lines 549-606: what executeById does after the creation phase (the
\* insert of line 543 keeps the handles that are already registered)
StartStep(gs, h, cnt, ops, n, fail) ==
  IF ~Notifiable(gs, n, ops.parent) THEN StepState(gs, h, cnt, ops, "skipped")
  ELSE LET out == ExecuteById(h, gs[n], getChildrenOf(gs[n], ops.parent), FALSE, fail)
       IN StepState(Put(gs, n, out.graph), out.handles, cnt,
                    BuiltOf(ops, out.handles), out.res)

\* The node list a caller hands to updateUmrfGraph: B with a new value of x
UpdateIn ==
  [BaseUmrf EXCEPT !.name = "B",
                   !.input_parameters =
                      [x \in {"x"} |-> Param("int", TRUE, TRUE, {}, "u")]]

\* Lines 326-350 for the node B: its handle, if registered, is updated
UpdateStep(gs, h, cnt, ops, n) ==
  IF n \notin DOMAIN gs \/ ~partOfGraphName(gs[n], "B")
  THEN StepState(gs, h, cnt, ops, "error")
  ELSE LET c == getNodeId(gs[n], "B")
       IN IF c \notin DOMAIN h \cap DOMAIN ops.built
          THEN StepState(gs, h, cnt, ops, "ok")
          ELSE StepState(gs, h, cnt,
                 [ops EXCEPT !.built[c] =
                    updateInputParams(
                      [BaseUmrf EXCEPT !.input_parameters = ops.built[c]],
                      UpdateIn).umrf.input_parameters],
                 "ok")

StepFails(gs, e, ops) ==
  IF e.a = "start" /\ "g1" \in DOMAIN gs
  THEN Fails(getChildrenOf(gs["g1"], ops.parent))
  ELSE IF e.a = "executeUmrfGraph" /\ "g1" \in DOMAIN gs
  THEN Fails(getRootNodes(gs["g1"]))
  ELSE {NoFail}

\* The step e on the state (gs, h, cnt, ops)
StepResult(gs, h, cnt, ops, e, fail) ==
  CASE e.a = "copy" -> CopyStep(gs, h, cnt, ops, "g1")
    [] e.a = "construct" -> ConstructStep(gs, h, cnt, ops, "g1")
    [] e.a = "start" -> StartStep(gs, h, cnt, ops, "g1", fail)
    [] e.a = "stopAction" ->
         LET h1 == StopAction(h, e.id)
         IN StepState(gs, h1, cnt, BuiltOf(ops, h1), "ok")
    [] e.a = "stopUmrfGraph" ->
         LET r == StopUmrfGraph(gs, h, "g1")
         IN StepState(r.graphs, r.handles, cnt, BuiltOf(ops, r.handles), r.res)
    [] e.a = "executeUmrfGraph" ->
         LET r == ExecuteUmrfGraph(gs, h, "g1", fail)
         IN StepState(r.graphs, r.handles, cnt, BuiltOf(ops, r.handles), r.res)
    [] e.a = "addUmrfGraph" ->
         LET r == AddUmrfGraph(gs, cnt, "g1", <<Desc("A", TRUE, NoParents)>>)
         IN StepState(r.graphs, h, r.counter, ops, r.res)
    [] e.a = "updateActionHandles" -> UpdateStep(gs, h, cnt, ops, "g1")
    [] e.a = "reap" ->
         IF DOMAIN h = {} THEN StepState(gs, h, cnt, ops, "ok")
         ELSE StepState(ReapNodes(gs, h), ReapHandles(h), cnt, ops, "ok")
    [] e.a = "sweep" ->
         IF DOMAIN h = {} THEN StepState(gs, h, cnt, ops, "ok")
         ELSE StepState(SweepGraphs(gs), h, cnt, ops, "ok")

\* The bags of the parent's outputs and of the child's inputs
NotifyOutputs ==
  UNION {[S -> {Param("int", TRUE, TRUE, {}, "d")}] : S \in SUBSET {"x", "y"}}

NotifyInputs ==
  UNION {[S -> {Param("int", TRUE, TRUE, {}, "")}] : S \in SUBSET {"x", "y"}}

\* addUmrfGraph(g1, [A, B child of A]) and executeUmrfGraph(g1) have
\* returned: A runs
NotifyInit ==
  LET a == AddUmrfGraph([n \in {} |-> 0], 0, "g1",
                        <<Desc("A", TRUE, NoParents), Desc("B", TRUE, Parents({"A"}))>>)
      e == ExecuteUmrfGraph(a.graphs, [i \in {} |-> 0], "g1", NoFail)
  IN /\ graphs = e.graphs
     /\ handles = e.handles
     /\ counter = a.counter
     /\ removed = {}
     /\ admitted = [n \in GraphNames |-> NoCount]
     /\ last = Last("execute", "g1", 0, 0, e.res)
     /\ shutdown = [pc |-> "idle", spinning |-> TRUE, reaper |-> "running"]
     /\ locks = [owner |-> [l \in Locks |-> "none"],
                 depth |-> [l \in Locks |-> 0],
                 prog  |-> [t \in Threads |-> <<>>]]
     /\ action = NoAction
     /\ \E o \in NotifyOutputs, i \in NotifyInputs :
          operands = [op |-> "notifyFinished", parent |-> 0, outputs |-> o,
                      inputs |-> [c \in {1} |-> i],
                      built |-> [c \in {0} |-> NoParams]]

\* The worker of A, on thread t1, returns and calls notifyFinished
DoWorkerReturns ==
  /\ locks.prog["t1"] = <<>>
  /\ operands.parent \in DOMAIN handles
  /\ handles[operands.parent].state = "RUNNING"
  /\ handles' = [handles EXCEPT ![operands.parent] = Completed(@)]
  /\ locks' = [locks EXCEPT !.prog["t1"] = notifyFinishedSteps]
  /\ last' = Last("return", "none", operands.parent, 0, "t1")
  /\ UNCHANGED <<graphs, counter, removed, admitted, shutdown, operands, action>>

\* Thread t2 enters one of the other operations
DoBeginOther ==
  /\ locks.prog["t2"] = <<>>
  /\ \E prog \in OtherPrograms :
       /\ prog = addUmrfGraphSteps => counter + 1 <= MaxId
       /\ locks' = [locks EXCEPT !.prog["t2"] = prog]
  /\ UNCHANGED <<graphs, handles, counter, removed, admitted, last, shutdown,
                 operands, action>>

\* A thread performs the step it is at
DoStep ==
  /\ UNCHANGED <<removed, admitted, shutdown, action>>
  /\ \E t \in Threads :
       /\ locks.prog[t] # <<>>
       /\ Head(locks.prog[t]).a \notin {"lock", "unlock"}
       /\ LET e == Head(locks.prog[t])
          IN \E fail \in StepFails(graphs, e, operands) :
               LET r == StepResult(graphs, handles, counter, operands, e, fail)
               IN /\ graphs' = r.graphs
                  /\ handles' = r.handles
                  /\ counter' = r.counter
                  /\ operands' = r.operands
                  /\ last' = Last(e.a, "none", e.id, 0, r.res)
                  /\ locks' = [locks EXCEPT !.prog[t] =
                                 IF e.a = "copy" /\ r.res = "skipped"
                                 THEN SubSeq(@, Len(executeByIdSteps) + 2, Len(@))
                                 ELSE Tail(@)]

NotifyNext ==
  \/ DoWorkerReturns
  \/ DoBeginOther
  \/ DoLock
  \/ DoUnlock
  \/ DoStep

NotifySpec == NotifyInit /\ [][NotifyNext]_vars

-----------------------------------------------------------------------------
(* Properties *)

\* The node i of the graph held under n is ACTIVE after the step and was
\* not ACTIVE (or not there) before it
BecameActive(n, i) ==
  /\ graphs'[n].nodes[i].st = "ACTIVE"
  /\ ~(/\ n \in DOMAIN graphs
       /\ i \in NodeIds(graphs[n])
       /\ graphs[n].nodes[i].st = "ACTIVE")

\* Every required parent relation of node i is received and the parent's
\* node is ACTIVE or FINISHED
ParentsReady(g, i) ==
  \A p \in DOMAIN g.nodes[i].parents :
    g.nodes[i].parents[p].required =>
      /\ g.nodes[i].parents[p].received
      /\ partOfGraphName(g, p)
      /\ g.nodes[getNodeId(g, p)].st \in {"ACTIVE", "FINISHED"}

\* C1: a node is made ACTIVE only when every parent relation of it with
\* required = true is received and that parent is ACTIVE or FINISHED; the
\* completion of only one of two required parents never activates the child.
C1_ActiveOnlyAfterRequiredParents ==
  [][\A n \in DOMAIN graphs' : \A i \in NodeIds(graphs'[n]) :
       BecameActive(n, i) => ParentsReady(graphs'[n], i)]_vars

\* The calls of executeById the executor makes on a held graph: the roots of
\* an INITIALIZED graph (executeUmrfGraph) and the children of a node of an
\* ACTIVE graph, after the propagation (notifyFinished)
ActivationCalls(g) ==
  {[graph |-> g, ids |-> getRootNodes(g), req |-> TRUE] :
     x \in {y \in {0} : checkState(g) = "INITIALIZED"}}
  \cup
  {[graph |-> Propagate(g, p, getChildrenOf(g, p)),
    ids |-> getChildrenOf(g, p), req |-> FALSE] :
     p \in {q \in NodeIds(g) : checkState(g) = "ACTIVE" /\ getChildrenOf(g, q) # {}}}

\* The ids of a batch whose handle reaches INITIALIZED and is buffered
Buffered(c) == {i \in c.ids : NewHandle(c.graph.nodes[i]).state = "INITIALIZED"}

\* C2: when instantiateAction or executeActionThread fails for an id of a
\* batch, at any position, then after executeById no buffered id has a
\* handle, no node of the batch is ACTIVE, every rolled-back node is
\* FINISHED and the caller gets the error of the failure.
C2_TransactionalActivation ==
  \A n \in DOMAIN graphs : \A c \in ActivationCalls(graphs[n]) :
    \A fail \in Fails(Buffered(c)) \ {NoFail} :
      (c.req => Buffered(c) = c.ids) =>
        LET out == ExecuteById(handles, c.graph, c.ids, c.req, fail)
        IN /\ \A i \in Buffered(c) : i \notin DOMAIN out.handles
           /\ \A i \in c.ids : out.graph.nodes[i].st # "ACTIVE"
           /\ \A i \in Buffered(c) : out.graph.nodes[i].st = "FINISHED"
           /\ out.res = (IF fail.phase = "inst" THEN "err_instantiate"
                         ELSE "err_execute")

\* A launch of three roots failed at the second one when its worker was
\* started: the first root had been started and was rolled back with it.
C2_Witness ==
  /\ last.op = "execute" /\ last.res = "err_execute" /\ last.at = 2
  /\ last.g \in DOMAIN graphs
  /\ Cardinality(getRootNodes(graphs[last.g])) = 3
  /\ \A i \in getRootNodes(graphs[last.g]) :
       graphs[last.g].nodes[i].st = "FINISHED" /\ i \notin DOMAIN handles

\* C3: executeUmrfGraph on a graph where a root fails to reach INITIALIZED
\* after another root was buffered ends with the "not fully initialized"
\* error and no other, the registry is as before and no root is ACTIVE.
C3_RootLaunchAllOrNothing ==
  [][(/\ last'.op = "execute"
      /\ last'.g \in DOMAIN graphs
      /\ checkState(graphs[last'.g]) = "INITIALIZED"
      /\ \E i, j \in getRootNodes(graphs[last'.g]) :
           /\ i < j
           /\ isUmrfCorrect(graphs[last'.g].nodes[i])
           /\ ~isUmrfCorrect(graphs[last'.g].nodes[j]))
     => (/\ last'.res = "err_not_initialized"
         /\ handles' = handles
         /\ \A i \in getRootNodes(graphs[last'.g]) :
              graphs'[last'.g].nodes[i].st # "ACTIVE")]_vars

\* C4: addUmrfGraph with a name that is already held raises an error and
\* leaves the graphs and the handle registry as they are.
C4_DuplicateNameRejected ==
  [][(last'.op = "add" /\ last'.g \in DOMAIN graphs)
     => (last'.res # "ok" /\ graphs' = graphs /\ handles' = handles)]_vars

\* The validation rule in words of the diff: add_umrf of a node already in
\* the graph, or another graph operation naming a node not in the graph
FailsValidation(g, d) ==
  \/ d.op = "add_umrf" /\ partOfGraphName(g, d.name)
  \/ d.op \in {"remove_umrf", "add_child", "remove_child"}
       /\ ~partOfGraphName(g, d.name)

\* C5: when a diff of the list fails the validation, modifyGraph raises the
\* validation error and applies no diff of the list, also none that comes
\* before the failing one: graph and registry are as before the call.
C5_ValidateBeforeModify ==
  \A n \in DOMAIN graphs : \A diffs \in DiffLists :
    (\E k \in 1 .. Len(diffs) : FailsValidation(graphs[n], diffs[k])) =>
      LET r == ModifyGraph(graphs[n], handles, counter, removed, diffs)
      IN /\ r.res = "err_validation"
         /\ r.graph = graphs[n]
         /\ r.handles = handles

\* A call was refused because of its second diff; its first diff was valid.
C5_Witness ==
  last.op = "modify" /\ last.res = "err_validation" /\ last.at = 2

\* C6: every modifyGraph call that raises an error leaves the graph and the
\* handle registry as they were before the call.
C6_FailedModifyChangesNothing ==
  [][(last'.op = "modify" /\ last'.res \notin {"ok", "ignored"})
     => (graphs' = graphs /\ handles' = handles)]_vars

\* C7: a node taken out by remove_umrf is in no graph and has no handle, in
\* any later state; a completion reported afterwards raises an error only
\* through the failure of an id of its batch, which is a node of the graph.
C7_RemovedNodeStaysOut ==
  /\ \A r \in removed :
       /\ r.id \notin DOMAIN handles
       /\ \A n \in DOMAIN graphs : r.id \notin NodeIds(graphs[n])
  /\ (last.op = "notify" /\ last.res # "ok") => last.at >= 1

\* The parent of a node that was removed before it started, while the
\* parent was running, has reported its completion.
C7_Witness ==
  \E r \in removed :
    /\ last.op = "notify" /\ last.res = "ok"
    /\ last.id \in r.running
    /\ r.id \notin DOMAIN handles
    /\ handles[last.id].state = "FINISHED"

\* C8: a stopUmrfGraph of a held graph succeeds, the graph is no longer held
\* and no node id of it has a handle; when only launches, completions and
\* cleanup wakes ran since the graph was added, the handle count is the one
\* before the admission.  For a name not held it raises an error and changes
\* nothing.
C8_StopGraphErasesItsHandles ==
  [][last'.op = "stop_graph" =>
       IF last'.g \in DOMAIN graphs
       THEN /\ last'.res = "ok"
            /\ last'.g \notin DOMAIN graphs'
            /\ \A i \in NodeIds(graphs[last'.g]) : i \notin DOMAIN handles'
            /\ admitted[last'.g] # NoCount =>
                 Cardinality(DOMAIN handles') = admitted[last'.g]
       ELSE /\ last'.res # "ok"
            /\ graphs' = graphs
            /\ handles' = handles]_vars

\* A graph added when the registry held one handle was launched and then
\* stopped: its handles are gone and one handle is left.
C8_Witness ==
  /\ last.op = "stop_graph" /\ last.res = "ok" /\ last.at >= 1
  /\ admitted[last.g] = 1
  /\ Cardinality(DOMAIN handles) = 1

\* C9: stopAction(id) erases the handle with that id if there is one and
\* nothing else, never raises, leaves the graphs alone, and a second
\* stopAction(id) changes nothing.
C9_StopActionIdempotent ==
  [][last'.op = "stop_action" =>
       /\ last'.res = "ok"
       /\ handles' = Drop(handles, {last'.id})
       /\ graphs' = graphs
       /\ StopAction(handles', last'.id) = handles']_vars

\* stopAction erased a handle and left another one in the registry.
C9_Witness ==
  /\ last.op = "stop_action" /\ last.at = 1
  /\ last.id \notin DOMAIN handles
  /\ DOMAIN handles # {}

\* C10: executeUmrfGraph on a name not held or on a graph whose state is not
\* INITIALIZED raises an error and changes neither graphs nor registry.
C10_ExecuteNeedsInitialized ==
  [][(/\ last'.op = "execute"
      /\ \/ last'.g \notin DOMAIN graphs
         \/ checkState(graphs[last'.g]) # "INITIALIZED")
     => (/\ last'.res \in {"err_no_graph", "err_state"}
         /\ graphs' = graphs
         /\ handles' = handles)]_vars

\* A launch of a graph that is ACTIVE was refused.
C10_Witness ==
  /\ last.op = "execute" /\ last.res = "err_state"
  /\ last.g \in DOMAIN graphs
  /\ checkState(graphs[last.g]) = "ACTIVE"
  /\ \E i \in getRootNodes(graphs[last.g]) : graphs[last.g].nodes[i].st = "ACTIVE"

\* The graph is a linear chain of three nodes
IsChain(g) ==
  /\ Cardinality(NodeIds(g)) = 3
  /\ \E a, b, c \in NodeIds(g) :
       /\ DOMAIN g.nodes[a].parents = {}
       /\ DOMAIN g.nodes[b].parents = {g.nodes[a].name}
       /\ DOMAIN g.nodes[c].parents = {g.nodes[b].name}

\* C11: for a chain A->B->C whose workers have all completed, the wake of the
\* cleanup task that reconciles the last of them leaves the three nodes
\* FINISHED, the graph finished and no handle of the chain in the registry:
\* the task drops each handle after reconciling it.
C11_ChainEndsWithNoHandles ==
  [][\A n \in DOMAIN graphs :
       (/\ last'.op = "cleanup"
        /\ IsChain(graphs[n])
        /\ \A i \in NodeIds(graphs[n]) :
             /\ i \in DOMAIN handles
             /\ handles[i].state = "FINISHED" /\ ~handles[i].error
             /\ handles[i].ready \/ graphs[n].nodes[i].st = "FINISHED")
       => (/\ checkState(ReapNodes(graphs, handles)[n]) = "FINISHED"
           /\ \A i \in NodeIds(graphs[n]) : i \notin DOMAIN handles')]_vars

\* C12: the cleanup task removes a graph only when the graph is FINISHED and
\* the registry holds no handle whose id is a node id of that graph.
C12_GraphDroppedWithoutHandles ==
  [][last'.op = "cleanup" =>
       \A n \in (DOMAIN graphs) \ (DOMAIN graphs') :
         /\ checkState(ReapNodes(graphs, handles)[n]) = "FINISHED"
         /\ \A i \in NodeIds(graphs[n]) : i \notin DOMAIN handles']_vars

\* C13: a wake of the cleanup task drops every held graph whose state is
\* FINISHED, whatever the registry holds, also when it is empty.
C13_FinishedGraphDropped ==
  [][last'.op = "cleanup" =>
       \A n \in DOMAIN graphs' : checkState(graphs'[n]) # "FINISHED"]_vars

\* C14: the mutexes are always taken handles before graphs, so that no
\* interleaving of the operations on two threads reaches a state where each
\* thread owns one of the two mutexes and waits for the other.
C14_NoLockOrderDeadlock ==
  \A t, u \in Threads :
    ~(/\ t # u
      /\ Waiting(t) /\ locks.owner[Head(locks.prog[t]).l] = u
      /\ Waiting(u) /\ locks.owner[Head(locks.prog[u]).l] = t)

\* A step of a stopAndCleanUp call
ShutdownStep == shutdown'.pc # shutdown.pc

\* C15: when stopAndCleanUp returns (true) no handle in the registry is
\* RUNNING, the spinning flag is false and the cleanup task has exited; a
\* second call returns true as well and changes nothing.
C15_ShutdownLeavesNothingRunning ==
  [][/\ (shutdown.pc = "joining" /\ shutdown'.pc = "idle")
        => (/\ last'.op = "shutdown" /\ last'.res = "true"
            /\ ~isActive(handles')
            /\ ~shutdown'.spinning
            /\ shutdown'.reaper = "exited")
     /\ (ShutdownStep /\ shutdown.reaper = "exited" /\ ~isActive(handles))
        => (/\ handles' = handles
            /\ graphs' = graphs
            /\ shutdown'.spinning = shutdown.spinning
            /\ shutdown'.reaper = shutdown.reaper)]_vars

\* The ids of the nodes held after the step that were not held before it
NewIds ==
  UNION {{i \in NodeIds(graphs'[n]) :
            ~(n \in DOMAIN graphs /\ i \in NodeIds(graphs[n]))} :
         n \in DOMAIN graphs'}

\* C16: over addUmrfGraph calls and add_umrf diffs, failing ones included,
\* the counter never decreases and every node that enters a graph carries an
\* id the counter handed out during that call, one id per node: ids are
\* strictly increasing and no two nodes held share one.
C16_IdsFreshAndIncreasing ==
  [][/\ counter' >= counter
     /\ \A i \in NewIds : counter <= i /\ i < counter'
     /\ \A n \in DOMAIN graphs' : \A i \in NodeIds(graphs'[n]) : i < counter'
     /\ \A n \in DOMAIN graphs' : \A i, j \in NodeIds(graphs'[n]) :
          graphs'[n].nodes[i].name = graphs'[n].nodes[j].name => i = j]_vars

\* An add_umrf diff has just put a node with the newest id in a graph, and
\* ids handed out before are no longer (or were never) held by any node
C16_Witness ==
  /\ last.op = "modify" /\ last.res = "ok"
  /\ \E n \in DOMAIN graphs :
       /\ (counter - 1) \in NodeIds(graphs[n])
       /\ Cardinality(NodeIds(graphs[n])) < counter
       /\ graphs[n].nodes[counter - 1].st = "NOT_STARTED"

\* C17: between operations, a node that is ACTIVE in a held graph has a
\* handle in the registry: once the handle of node i has been erased (by
\* stopAction, by a rollback or by a remove_umrf diff) no held graph has
\* node i ACTIVE.
C17_ActiveNodeHasHandle ==
  \A n \in DOMAIN graphs : \A i \in NodeIds(graphs[n]) :
    graphs[n].nodes[i].st = "ACTIVE" => i \in DOMAIN handles

OnlyParent(g, b, c) == DOMAIN g.nodes[c].parents = {g.nodes[b].name}

LiveAdd == <<Diff("add_umrf", "B", "B"), Diff("add_child", "A", "B")>>

-----------------------------------------------------------------------------
\* C22: isEqual(other, check_updatable) is an equivalence relation on node
\* descriptors for both values of check_updatable: every descriptor is equal
\* to itself, a.isEqual(b) and b.isEqual(a) agree, and a.isEqual(b) with
\* b.isEqual(c) gives a.isEqual(c), relation sequences with repeated
\* relations included.
C22_IsEqualIsEquivalence ==
  operands.op = "isEqual" =>
    /\ operands.aa
    /\ operands.ab = operands.ba
    /\ (operands.ab /\ operands.bc) => operands.ac

-----------------------------------------------------------------------------
\* C27: updateInputParams changes updatable inputs only: a parameter whose
\* updatable flag is false is unchanged, a name absent from the input bag
\* stays absent, a parameter is replaced only by an incoming parameter of
\* the same name, type, required flag and allowed values, and the call
\* returns true iff at least one parameter was replaced.
Replaced(n) ==
  /\ n \in DOMAIN operands.this.input_parameters
  /\ n \in DOMAIN operands.umrf_in.input_parameters
  /\ operands.this.input_parameters[n].updatable
  /\ isEqualNoDataNoUpdate(operands.umrf_in.input_parameters[n],
                           operands.this.input_parameters[n])

-----------------------------------------------------------------------------
\* C21: updateUmrfGraph rejects atomically: when the named graph is not
\* held, or the incoming list differs in size from the graph, or some node
\* of the graph has no incoming node equal to it (isEqual without the
\* updatable flags), the call raises an error and no handle changes; when it
\* accepts, the incoming list matches the nodes of the graph one-to-one.
Rejected(gs, graph_name, umrfs_vec) ==
  \/ graph_name \notin DOMAIN gs
  \/ Len(umrfs_vec) # Cardinality(NodeIds(gs[graph_name]))
  \/ \E i \in NodeIds(gs[graph_name]) :
       \A k \in 1 .. Len(umrfs_vec) :
         ~isEqual(gs[graph_name].nodes[i].umrf, umrfs_vec[k], FALSE)

OneToOne(g, umrfs_vec) ==
  /\ \A i \in NodeIds(g) :
       Cardinality({k \in 1 .. Len(umrfs_vec) :
                      isEqual(g.nodes[i].umrf, umrfs_vec[k], FALSE)}) = 1
  /\ \A k \in 1 .. Len(umrfs_vec) :
       Cardinality({i \in NodeIds(g) :
                      isEqual(g.nodes[i].umrf, umrfs_vec[k], FALSE)}) = 1

C21_UpdateRejectsAtomically ==
  [][last'.op = "update" /\ operands'.op = "updateUmrfGraph" =>
       IF Rejected(graphs, last'.g, operands'.umrfs_vec)
       THEN last'.res = "error" /\ handles' = handles
       ELSE /\ last'.res = "ok"
            /\ OneToOne(graphs[last'.g], operands'.umrfs_vec)]_vars

\* An accepted update that changed the updatable parameter x of A's handle
C21_Witness ==
  /\ last.op = "update"
  /\ last.res = "ok"
  /\ 0 \in DOMAIN handles
  /\ handles[0].umrf.input_parameters["x"].data = "d"

-----------------------------------------------------------------------------
\* C23: cooperative stop is monotonic: actionOk is true at every poll before
\* stopAction is called on the action and false at every poll after it, so a
\* worker that loops while actionOk observes false at its first poll after
\* the stop request.
C23_StopObservedAtNextPoll ==
  \A k \in 1 .. Len(action.polls) :
    action.polls[k].ok = (action.polls[k].stops = 0)

-----------------------------------------------------------------------------
\* C26: when the loader fails to instantiate the action of node n during an
\* activation batch, then after the call n's node state is ERROR (the
\* rollback does not overwrite it with FINISHED) and the caller gets the
\* error; no child of a node in ERROR is activated.
\* The batch of the call that produced the next state: the buffered roots
\* of the graph for executeUmrfGraph, the buffered children of the finished
\* parent for notifyFinished
BatchOfStep ==
  IF last'.op = "execute"
  THEN IF last'.g \in DOMAIN graphs /\ checkState(graphs[last'.g]) = "INITIALIZED"
       THEN {i \in getRootNodes(graphs[last'.g]) :
               NewHandle(graphs[last'.g].nodes[i]).state = "INITIALIZED"}
       ELSE {}
  ELSE {i \in NotifyBatch(graphs, last'.id) :
          \E n \in DOMAIN graphs :
            /\ i \in NodeIds(graphs[n])
            /\ NewHandle(graphs[n].nodes[i]).state = "INITIALIZED"}

C26_InstantiateFailureLeavesError ==
  [][/\ (last'.op \in {"execute", "notify"} /\ last'.res = "err_instantiate") =>
          \A i \in BatchOfStep :
            PosIn(BatchOfStep, i) = last'.at =>
              \A n \in DOMAIN graphs' :
                i \in NodeIds(graphs'[n]) => graphs'[n].nodes[i].st = "ERROR"
     /\ \A n \in DOMAIN graphs' \cap DOMAIN graphs :
          \A e \in NodeIds(graphs[n]) :
            graphs[n].nodes[e].st = "ERROR" =>
              \A c \in getChildrenOf(graphs[n], e) :
                c \in NodeIds(graphs'[n]) => ~BecameActive(n, c)]_vars

-----------------------------------------------------------------------------
\* C29: a node is activated at most once: executeById never instantiates or
\* starts a worker for an id that already has a handle in the registry or
\* whose node is already ACTIVE or FINISHED, and a failure in such a call
\* never erases the handle of a node that was running before the call.
C29_ActivatedAtMostOnce ==
  [][last'.op \in {"execute", "notify"} /\ last'.res # "err_not_initialized" =>
       /\ \A i \in BatchOfStep :
            /\ i \notin DOMAIN handles
            /\ \A n \in DOMAIN graphs :
                 i \in NodeIds(graphs[n]) =>
                   graphs[n].nodes[i].st \notin {"ACTIVE", "FINISHED"}
       /\ last'.res # "ok" =>
            \A i \in DOMAIN handles :
              (handles[i].state = "RUNNING" /\ i # last'.id) => i \in DOMAIN handles']_vars

-----------------------------------------------------------------------------
\* C30: stopAndCleanUp never leaves the mutex of the handles held: on every
\* exit path of the stop phase, a raising stopAction of a handle included,
\* a thread that has left the operation owns no mutex, so an operation of
\* another thread is not blocked forever.
C30_NoLockHeldAfterExit ==
  \A t \in Threads :
    locks.prog[t] = <<>> => \A l \in Locks : locks.owner[l] # t

-----------------------------------------------------------------------------
\* C28: the reaper survives failures: when a call on one handle raises during
\* a wake, the other finished handles are still reconciled in that wake
\* (result read, node FINISHED), the sweep still runs (no FINISHED graph is
\* left) and, the spinning flag being set, the reaper keeps running.
C28_ReaperSurvivesFailure ==
  [][last'.op = "cleanup_raised" =>
       /\ shutdown'.spinning => shutdown'.reaper = "running"
       /\ \A i \in Reapable(handles) \ {last'.id} : ~handles'[i].ready
       /\ \A n \in DOMAIN graphs' : checkState(graphs'[n]) # "FINISHED"]_vars

-----------------------------------------------------------------------------
-----------------------------------------------------------------------------
\* The thread t performs, in this step, the program step s it is at
Takes(t, s) ==
  /\ locks.prog[t] # <<>>
  /\ Head(locks.prog[t]).a = s
  /\ locks'.prog[t] # locks.prog[t]

\* The call of notifyFinished on thread t has copied and has not yet
\* left executeById's start of the workers
BetweenCopyAndStart(t) ==
  /\ \E k \in 1 .. Len(locks.prog[t]) : locks.prog[t][k].a = "start"
  /\ \A k \in 1 .. Len(locks.prog[t]) : locks.prog[t][k].a # "copy"

\* The input bag holds the data of every output of the parent it has a
\* parameter for
HoldsOutputs(bag) ==
  \A x \in DOMAIN bag \cap DOMAIN operands.outputs :
    bag[x].data = operands.outputs[x].data

\* C24: in notifyFinished the propagation precedes the activation and is not
\* observable half-done: when the handle of a child is constructed, the
\* child's relation to the parent is marked received and the Umrf the handle
\* is constructed from holds the parent's outputs; and from the copy to the
\* start of the workers no other thread performs a lock event, an unlock
\* event or a step of an executor operation or of the reaper.
C24_CopyBeforeActivationAtomic ==
  [][\A t \in Threads :
       /\ Takes(t, "construct") =>
            \A c \in DOMAIN handles' \ DOMAIN handles :
              /\ \A n \in DOMAIN graphs :
                   c \in NodeIds(graphs[n]) =>
                     graphs[n].nodes[c].parents[
                       graphs[n].nodes[operands.parent].name].received
              /\ HoldsOutputs(operands'.built[c])
       /\ BetweenCopyAndStart(t) =>
            \A u \in Threads \ {t} :
              locks.prog[u] # <<>> => locks'.prog[u] = locks.prog[u]]_vars

\* notifyFinished has started B with A's output x in the copy of its
\* handle, while thread t2 waits for a mutex the call holds
C24_Witness ==
  /\ last.op = "start" /\ last.res = "ok"
  /\ 1 \in DOMAIN handles /\ handles[1].state = "RUNNING"
  /\ "x" \in DOMAIN operands.built[1] \cap DOMAIN operands.outputs
  /\ operands.built[1]["x"].data = "d"
  /\ Waiting("t2")

====
